---------------------------- MODULE Spec2Model ----------------------------
(***************************************************************************)
(* Presentation synchronisation engine of streamingslidesv2.               *)
(*                                                                         *)
(* Several specifications share this module, each over its own group of    *)
(* variables and leaving the other groups untouched:                       *)
(*   Spec          the channel manager of one process (command.ts and      *)
(*                 status.ts: topic cache, publish-before-join guard,      *)
(*                 fresh-subscription guard, relay status callbacks);      *)
(*   SpecLiveness  the controller's heartbeat liveness (RemoteControl);    *)
(*   SpecPlayback  the display's command reducer (SlideshowPreview);       *)
(* the remaining ones (command sending, buttons, heartbeat and status      *)
(* effects, echo, unsubscribe, sequencer, sequencer loop, advance timer,   *)
(* teardown) are introduced in the sections that define their actions.     *)
(***************************************************************************)
EXTENDS Integers, Sequences, FiniteSets, TLC

VARIABLES
    \* ---- channel manager (one process, one slideshow id) ----
    cache,      \* commandChannels / statusChannels / heartbeatChannels: topic -> handle
    chans,      \* every RealtimeChannel created so far, by handle id
    pubs,       \* every sendCommand / broadcastStatus / sendHeartbeat call so far
    subs,       \* per topic, the handles of the subscribeTo* calls, in call order
    invoked,    \* per topic, the handlers invoked by deliveries since the last subscribeTo*
    focus,      \* the topic a run exercises
    \* ---- controller liveness ----
    now,                \* the controller's clock, in seconds
    skew,               \* display clock minus controller clock, in seconds
    lastHeartbeat,      \* RemoteControl state lastHeartbeat
    isPreviewActive,    \* RemoteControl state isPreviewActive (displayActive)
    status,             \* RemoteControl state status (index of the latest snapshot)
    lastReceipt,        \* history: controller clock when the latest heartbeat arrived
    lastPoll,           \* history: controller clock of the latest liveness poll tick
    \* ---- display playback ----
    loaded,         \* loadData has stored slideshow and allItems
    allItems,       \* the playback sequence (item types)
    loop,           \* slideshow.settings.loop
    currentIndex,
    isPlaying,
    isBlackScreen,
    lastOp,         \* history: the latest command handled, with the state before and after
    \* ---- controller command sending ----
    calls,          \* every sendCommand call so far: its log append, and its
                    \* index in pubs once it has gone on to publish (0 before)
    \* ---- controller buttons ----
    clock,          \* the controller's time, in units of 100 ms
    closure,        \* the render whose handleCommand the buttons call
    timeout,        \* per render, the pending timer of its debounced function
    presses,        \* history: every button press, with its time
    issued,         \* history: every sendCommand the buttons caused, with its time
    \* ---- display session ----
    dclock,         \* the display's time, in seconds since the first page load
    session,        \* "none" before the page mounts, "live", "ended" after unmount
    startedAt,      \* history: display time of the session's start
    endedAt,        \* history: display time of the session's teardown
    heartbeatInterval,  \* heartbeatIntervalRef: due time of the next tick, or Null
    heartbeats,     \* history: the sendHeartbeat calls of the session, with outcome
    statusDeps,     \* the dependencies the status effect last ran with
    lastSnapshot,   \* history: the payload of the latest broadcastStatus call
    published,      \* history: the number of broadcastStatus calls of the session
    repeated,       \* history: a broadcastStatus call repeated the previous payload
    \* ---- relay of the process's own messages ----
    relayed,        \* history: per own publish relayed, the process's handlers
                    \* that were listening and those that were invoked
    \* ---- returned unsubscribe functions ----
    lastUnsub,      \* history: the handle whose unsubscribe function was the
                    \* latest operation, how often in a row, and the cache and
                    \* live handles its first call left
    \* ---- playback sequencer ----
    streams,        \* the streams getStreams returned, in declaration order
    shuffle,        \* slideshow.settings.shuffle
    built,          \* buildPlaybackSequence has run
    sequence,       \* the sequence buildPlaybackSequence returned
    \* ---- playback sequencer, step by step ----
    loopPc,         \* where a buildPlaybackSequence call stands: "idle", "loop", "returned"
    loopBase,       \* its baseItems
    loopIndex,      \* its baseIndex
    loopItems,      \* its frequencyItems
    loopResult,     \* its result
    passes,          \* history: the passes of its while loop so far
    \* ---- display auto-advance timer ----
    lastFire,        \* history: the latest firing of the auto-advance timer, with the state before and after
    \* ---- session teardown ----
    tornDown,        \* the session of the process has been torn down (its page unmounted)
    \* ---- display auto-advance effect ----
    pendingTimers,    \* the timeouts of the auto-advance effect that are set and neither fired nor cleared
    timerRef,    \* timerRef.current: the id of the timeout set last, 0 for null
    effectCleanup,    \* the latest run of the auto-advance effect returned its cleanup function
    advanceDeps,    \* the dependencies the auto-advance effect last ran with
    cause,    \* history: the kind of the latest event the page handled
    \* ---- display state updates ----
    updates,    \* the state updates queued since the latest render, in call order
    lastBatch,    \* history: right after a render, the events of its batch, with the index before and after
    \* ---- command log ----
    commandLog,    \* the rows of slideshow_commands for the slideshow, oldest first (the sendCommand call that inserted each)
    appended,    \* history: every row an insert of sendCommand has stored, in order
    returned    \* the rows the latest getCommandHistory call returned

chanVars == <<cache, chans, pubs, subs, invoked, focus>>
liveVars == <<now, skew, lastHeartbeat, isPreviewActive, status, lastReceipt, lastPoll>>
playVars == <<loaded, allItems, loop, currentIndex, isPlaying, isBlackScreen, lastOp>>
sendVars == <<calls>>
buttonVars == <<clock, closure, timeout, presses, issued>>
displayVars == <<dclock, session, startedAt, endedAt, heartbeatInterval,
                 heartbeats, statusDeps, lastSnapshot, published, repeated>>
echoVars == <<relayed>>
unsubVars == <<lastUnsub>>
seqVars == <<streams, shuffle, built, sequence>>
loopVars == <<loopPc, loopBase, loopIndex, loopItems, loopResult, passes>>
timerVars == <<lastFire>>
teardownVars == <<tornDown>>
effectVars == <<pendingTimers, timerRef, effectCleanup, advanceDeps, cause>>
batchVars == <<updates, lastBatch>>
logVars == <<commandLog, appended, returned>>
vars == <<chanVars, liveVars, playVars, sendVars, buttonVars, displayVars, echoVars,
          unsubVars, seqVars, loopVars, timerVars,
    teardownVars,
    effectVars,
    batchVars,
    logVars>>

\* What the actions of each part of the program leave alone.
exceptChan == <<liveVars, playVars, sendVars, buttonVars, displayVars, echoVars,
    unsubVars, seqVars, loopVars, timerVars,
    teardownVars,
    effectVars,
    batchVars,
    logVars>>
exceptLive == <<chanVars, playVars, sendVars, buttonVars, displayVars, echoVars,
    unsubVars, seqVars, loopVars, timerVars,
    teardownVars,
    effectVars,
    batchVars,
    logVars>>
exceptPlay == <<chanVars, liveVars, sendVars, buttonVars, displayVars, echoVars,
    unsubVars, seqVars, loopVars, timerVars,
    teardownVars,
    effectVars,
    batchVars,
    logVars>>
exceptSend == <<liveVars, playVars, buttonVars, displayVars, echoVars,
    unsubVars, seqVars, loopVars, timerVars,
    teardownVars,
    effectVars,
    batchVars,
    logVars>>
exceptLog == <<liveVars, playVars, buttonVars, displayVars, echoVars,
    unsubVars, seqVars, loopVars, timerVars,
    teardownVars,
    effectVars,
    batchVars>>
exceptButton == <<chanVars, liveVars, playVars, sendVars, displayVars, echoVars,
    unsubVars, seqVars, loopVars, timerVars,
    teardownVars,
    effectVars,
    batchVars,
    logVars>>
exceptDisplay == <<chanVars, liveVars, sendVars, buttonVars, echoVars,
    unsubVars, seqVars, loopVars, timerVars,
    teardownVars,
    effectVars,
    batchVars,
    logVars>>
exceptEcho == <<liveVars, playVars, sendVars, buttonVars, displayVars,
    unsubVars, seqVars, loopVars, timerVars,
    teardownVars,
    effectVars,
    batchVars,
    logVars>>
exceptUnsub == <<liveVars, playVars, sendVars, buttonVars, displayVars, echoVars,
    seqVars, loopVars, timerVars,
    teardownVars,
    effectVars,
    batchVars,
    logVars>>
exceptSeq == <<chanVars, liveVars, playVars, sendVars, buttonVars, displayVars,
    echoVars, unsubVars, loopVars, timerVars,
    teardownVars,
    effectVars,
    batchVars,
    logVars>>
exceptLoop == <<chanVars, liveVars, playVars, sendVars, buttonVars, displayVars,
    echoVars, unsubVars, timerVars,
    teardownVars,
    effectVars,
    batchVars,
    logVars>>
exceptTimer == <<chanVars, liveVars, sendVars, buttonVars, displayVars, echoVars,
    unsubVars, seqVars, loopVars,
    teardownVars,
    effectVars,
    batchVars,
    logVars>>
exceptAdvance == <<chanVars, liveVars, sendVars, buttonVars, displayVars, echoVars,
    unsubVars, seqVars, loopVars, timerVars, teardownVars,
    batchVars,
    logVars>>
exceptBatch == <<chanVars, liveVars, sendVars, buttonVars, displayVars, echoVars,
    unsubVars, seqVars, loopVars, timerVars, teardownVars, effectVars,
    logVars>>
exceptControllerUnmount == <<chanVars, liveVars, playVars, sendVars, displayVars,
    echoVars, unsubVars, seqVars, loopVars, timerVars,
    effectVars,
    batchVars,
    logVars>>
exceptTeardown == <<liveVars, playVars, sendVars, buttonVars, displayVars, echoVars,
    unsubVars, seqVars, loopVars, timerVars,
    effectVars,
    batchVars,
    logVars>>

-----------------------------------------------------------------------------
(* Bounds of the model *)

MaxCalls == 3       \* service calls (publish or subscribe) issued in one run
MaxSends == 2       \* sendCommand calls issued in one run

-----------------------------------------------------------------------------
(***************************************************************************)
(* CHANNEL MANAGER                                                         *)
(*                                                                         *)
(* The three services are the same code over three caches; the actions     *)
(* take the topic as a parameter.  A handle's state is the relay client's  *)
(* channel.state, named as the specification names it: idle (closed),      *)
(* connecting (joining), joined, errored.                                  *)
(*                                                                         *)
(* Relay client behaviour the services rely on:                            *)
(*  - subscribe(cb) on a handle that never subscribed starts the join      *)
(*    handshake and registers cb for every later status of the handle;     *)
(*  - subscribe(cb) on a handle that already subscribed does not register  *)
(*    cb: depending on the client version it throws or returns silently;   *)
(*  - unsubscribe() closes the handle and reports CLOSED to its callbacks; *)
(*  - an errored handle rejoins on its own ("will retry on reconnection"); *)
(*  - a message is delivered to the listeners of joined handles.           *)
(*                                                                         *)
(* The three caches are separate maps and a handle belongs to one topic,   *)
(* so operations on different topics touch disjoint state and commute.  A  *)
(* run therefore exercises one topic, focus, chosen initially among all.   *)
(***************************************************************************)

Topics == {"commands", "status", "heartbeat"}
NoHandle == 0

ChannelStates == {"idle", "connecting", "joined", "errored"}
FailureStatuses == {"CHANNEL_ERROR", "TIMED_OUT", "CLOSED"}

\* The sendCommand calls still awaiting their log append.
Pending == {c \in DOMAIN calls : calls[c].log = "pending"}

\* The service calls issued so far.
Calls == Len(pubs) + Len(subs[focus]) + Cardinality(Pending)

\* getCommandChannel / getStatusChannel / getHeartbeatChannel: the handle the
\* call returns; a new id when the cache holds none for the topic.
getChannel(t) == IF cache[t] = NoHandle THEN Len(chans) + 1 ELSE cache[t]

\* The state of the handle getChannel returns (a new handle has not subscribed).
StateOf(h) == IF h > Len(chans) THEN "idle" ELSE chans[h].state

\* `if (channel.state !== 'joined')`: the publish must join before sending.
MustJoinFirst_never(st) == FALSE
MustJoinFirst(st) == st # "joined"

\* The status callbacks' test for a failed subscription.
IsFailure(s) == s \in FailureStatuses

\* `xChannels.delete(name)` in a publish's status callback.
CacheAfterPublishFailure_kept(c, t) == c
CacheAfterPublishFailure(c, t) == [c EXCEPT ![t] = NoHandle]

\* `xChannels.delete(channelName)` in a subscribeTo*'s status callback.
CacheAfterSubscribeFailure(c, t) == [c EXCEPT ![t] = NoHandle]

\* The publishes whose status callback is registered on handle h.
CallbackPubs(h) == {p \in DOMAIN pubs : pubs[p].handle = h /\ pubs[p].cb}

\* The cache after the callbacks registered on h have run for status s.
CacheAfterStatus(c, h, s) ==
    LET t  == chans[h].topic
        c1 == IF chans[h].kind = "sub" /\ IsFailure(s)
                 THEN CacheAfterSubscribeFailure(c, t) ELSE c
    IN  IF CallbackPubs(h) # {} /\ IsFailure(s)
           THEN CacheAfterPublishFailure(c1, t) ELSE c1

\* The publish calls after the callbacks registered on h have run for status
\* s, the handle being in state st by then: a waiting call resolves and sends
\* (SUBSCRIBED) or rejects (failure); a settled call's resolve and reject do
\* nothing.
PubsAfterStatus(h, s, st) ==
    [p \in DOMAIN pubs |->
        IF p \in CallbackPubs(h) /\ pubs[p].pc = "waiting"
        THEN IF s = "SUBSCRIBED"
                THEN [pubs[p] EXCEPT !.pc = "sent", !.sentOn = st,
                                     !.sawSubscribed = TRUE]
             ELSE IF IsFailure(s)
                THEN [pubs[p] EXCEPT !.pc = "failed", !.joinFailed = TRUE]
             ELSE pubs[p]
        ELSE pubs[p]]

\* channel.unsubscribe(): the handle closes and its callbacks see CLOSED.
Closed(h) == [chans EXCEPT ![h].state = "idle"]

NewChannel(t, k) == [topic |-> t, state |-> "connecting", kind |-> k]

NewPub(t, h, pc, cb, st) ==
    [topic |-> t, handle |-> h, pc |-> pc, cb |-> cb,
     sentOn |-> IF pc = "sent" THEN st ELSE "none",
     stateAtCall |-> st,
     created |-> (h > Len(chans)),
     sawSubscribed |-> FALSE,
     joinFailed |-> FALSE,
     reusedFailed |-> (h <= Len(chans) /\ \E q \in DOMAIN pubs :
                          pubs[q].handle = h /\ pubs[q].joinFailed),
     reusedTimedOut |-> (h <= Len(chans) /\ \E q \in DOMAIN pubs :
                          pubs[q].handle = h /\ pubs[q].pc = "timeout")]

\* sendCommand / broadcastStatus / sendHeartbeat, from obtaining the handle to
\* the send or to the wait for the join handshake.
Send(t) ==
    /\ LET h  == getChannel(t)
           st == StateOf(h)
       IN  IF ~MustJoinFirst(st)
           THEN \* channel.send right away
                /\ pubs' = Append(pubs, NewPub(t, h, "sent", FALSE, st))
                /\ chans' = IF h > Len(chans)
                               THEN Append(chans, [topic |-> t, state |-> "idle", kind |-> "pub"])
                               ELSE chans
                /\ cache' = [cache EXCEPT ![t] = h]
           ELSE IF h > Len(chans)
           THEN \* a new handle: subscribe starts the handshake
                /\ pubs' = Append(pubs, NewPub(t, h, "waiting", TRUE, st))
                /\ chans' = Append(chans, NewChannel(t, "pub"))
                /\ cache' = [cache EXCEPT ![t] = h]
           ELSE \* a cached handle that already subscribed: the second
                \* subscribe throws inside the promise, or is ignored
                /\ \E thrown \in BOOLEAN :
                      pubs' = Append(pubs,
                          NewPub(t, h, IF thrown THEN "threw" ELSE "waiting", FALSE, st))
                /\ UNCHANGED <<chans, cache>>
    /\ UNCHANGED <<subs, invoked, focus>>

\* broadcastStatus / sendHeartbeat, and sendCommand past its log append.
Publish(t) == Calls < MaxCalls /\ Send(t)

\* `if (dbError) console.error(...)`: the call goes on whatever the append's
\* outcome.
ProceedsAfterAppend_onlyLogged(ok) == ok
ProceedsAfterAppend(ok) == TRUE

\* sendCommand up to `await supabase.from('slideshow_commands').insert(...)`.
SendCommand ==
    /\ Calls < MaxCalls
    /\ Len(calls) < MaxSends
    /\ calls' = Append(calls, [log |-> "pending", pub |-> 0])
    /\ UNCHANGED chanVars

\* The insert of call c settles, with or without an error, and sendCommand
\* resumes: getCommandChannel, the join if needed, channel.send.
AppendSettled(c, ok) ==
    /\ c \in Pending
    /\ IF ProceedsAfterAppend(ok)
       THEN /\ Send("commands")
            /\ calls' = [calls EXCEPT ![c] =
                           [log |-> IF ok THEN "ok" ELSE "failed",
                            pub |-> Len(pubs) + 1]]
       ELSE /\ calls' = [calls EXCEPT ![c].log = "failed"]
            /\ UNCHANGED chanVars

\* The 5 second timer of a publish's wait: reject, nothing else.
PublishTimeout(p) ==
    /\ p \in DOMAIN pubs
    /\ pubs[p].pc = "waiting"
    /\ pubs' = [pubs EXCEPT ![p].pc = "timeout"]
    /\ UNCHANGED <<cache, chans, subs, invoked, focus>>

\* subscribeToCommands / subscribeToStatus / subscribeToHeartbeat.
Subscribe(t) ==
    /\ Calls < MaxCalls
    /\ LET existing == cache[t]
           h == Len(chans) + 1
           closedChans == IF existing # NoHandle THEN Closed(existing) ELSE chans
           closedPubs  == IF existing # NoHandle
                             THEN PubsAfterStatus(existing, "CLOSED", "idle") ELSE pubs
       IN  /\ chans' = Append(closedChans, NewChannel(t, "sub"))
           /\ pubs' = closedPubs
           /\ cache' = [cache EXCEPT ![t] = h]
           /\ subs' = [subs EXCEPT ![t] = Append(@, h)]
           /\ invoked' = [invoked EXCEPT ![t] = {}]
    /\ UNCHANGED focus

\* `xChannels.delete(channelName)` in a returned unsubscribe function.
CacheAfterUnsubscribe_kept(c, t) == c
CacheAfterUnsubscribe(c, t) == [c EXCEPT ![t] = NoHandle]

\* The function a subscribeTo* call returned, for the handle h it created.
Unsubscribe(h) ==
    /\ h \in DOMAIN chans
    /\ chans[h].kind = "sub"
    /\ chans' = Closed(h)
    /\ pubs' = PubsAfterStatus(h, "CLOSED", "idle")
    /\ cache' = CacheAfterUnsubscribe(cache, chans[h].topic)
    /\ UNCHANGED <<subs, invoked, focus>>

\* The relay completes the join handshake of h: status SUBSCRIBED.
RelayJoined(h) ==
    /\ h \in DOMAIN chans
    /\ chans[h].state = "connecting"
    /\ chans' = [chans EXCEPT ![h].state = "joined"]
    /\ pubs' = PubsAfterStatus(h, "SUBSCRIBED", "joined")
    /\ cache' = CacheAfterStatus(cache, h, "SUBSCRIBED")
    /\ UNCHANGED <<subs, invoked, focus>>

\* The relay fails h: the handshake errors or times out, or the connection of
\* a joined handle drops.
RelayFailed(h, s) ==
    /\ h \in DOMAIN chans
    /\ s \in {"CHANNEL_ERROR", "TIMED_OUT"}
    /\ \/ chans[h].state = "connecting"
       \/ chans[h].state = "joined" /\ s = "CHANNEL_ERROR"
    /\ chans' = [chans EXCEPT ![h].state = "errored"]
    /\ pubs' = PubsAfterStatus(h, s, "errored")
    /\ cache' = CacheAfterStatus(cache, h, s)
    /\ UNCHANGED <<subs, invoked, focus>>

\* The relay client retries the join of an errored handle.
RelayRejoin(h) ==
    /\ h \in DOMAIN chans
    /\ chans[h].state = "errored"
    /\ chans' = [chans EXCEPT ![h].state = "connecting"]
    /\ UNCHANGED <<cache, pubs, subs, invoked, focus>>

\* A message arrives on topic t: the listener of every joined handle runs.
Deliver(t) ==
    /\ invoked' = [invoked EXCEPT ![t] =
                     @ \cup {h \in DOMAIN chans : /\ chans[h].topic = t
                                                  /\ chans[h].kind = "sub"
                                                  /\ chans[h].state = "joined"}]
    /\ UNCHANGED <<cache, chans, pubs, subs, focus>>

\* `broadcast: { self: ... }` in the config a handle of topic t is created
\* with: true for commands, false for status and heartbeat.
SelfEcho(t) == t = "commands"

\* The handlers of this process listening on a joined handle of topic t,
\* the handles being ch.
Listening(ch, t) == {g \in DOMAIN ch : /\ ch[g].topic = t
                                       /\ ch[g].kind = "sub"
                                       /\ ch[g].state = "joined"}

\* The publishes that send in this step.
Sending == {p \in DOMAIN pubs' : /\ pubs'[p].pc = "sent"
                                 /\ p \in DOMAIN pubs => pubs[p].pc # "sent"}

\* The relay broadcasts each message sent in this step: it goes to every
\* joined handle of the topic other than the sending one, and to the sending
\* one when that handle was created with self = true.
RelayOwn ==
    relayed' = relayed \cup
        {[pub |-> p, topic |-> pubs'[p].topic,
          listening |-> Listening(chans', pubs'[p].topic),
          invoked |-> {g \in Listening(chans', pubs'[p].topic) :
                          g # pubs'[p].handle \/ SelfEcho(chans'[g].topic)}]
         : p \in Sending}

InitEcho == relayed = {}

\* The handles that are live (connecting or joined), the handles being ch.
LiveHandles(ch) == {g \in DOMAIN ch : ch[g].state \in {"connecting", "joined"}}

NoUnsub == [handle |-> NoHandle, times |-> 0, cache |-> <<>>, live |-> {}]

\* The latest operation was not a returned unsubscribe function.
OtherOperation == lastUnsub' = NoUnsub

\* The latest operation was the unsubscribe function of handle h: its first
\* call since another operation, or a call right after a call of the same
\* function.
UnsubscribeCalled(h) ==
    lastUnsub' = IF lastUnsub.handle = h
                    THEN [lastUnsub EXCEPT !.times = 2]
                    ELSE [handle |-> h, times |-> 1,
                          cache |-> cache', live |-> LiveHandles(chans')]

InitUnsub == lastUnsub = NoUnsub

\* The handles the subscribeTo* calls of the session created.
SubscribedHandles == {h \in DOMAIN chans : chans[h].kind = "sub"}

\* The page unmounts: the cleanup of every subscription effect calls the
\* unsubscribe function its subscribeTo* call returned.  No cleanup touches
\* the handles sendCommand, broadcastStatus and sendHeartbeat obtained.
Teardown ==
    /\ ~tornDown
    /\ tornDown' = TRUE
    /\ chans' = [h \in DOMAIN chans |->
                    IF h \in SubscribedHandles THEN Closed(h)[h] ELSE chans[h]]
    /\ pubs' = [p \in DOMAIN pubs |->
                   IF pubs[p].handle \in SubscribedHandles
                   THEN PubsAfterStatus(pubs[p].handle, "CLOSED", "idle")[p]
                   ELSE pubs[p]]
    /\ cache' = [t \in Topics |->
                    IF \E h \in SubscribedHandles : chans[h].topic = t
                    THEN CacheAfterUnsubscribe(cache, t)[t] ELSE cache[t]]
    /\ UNCHANGED <<subs, invoked, focus>>

InitTeardown == tornDown = FALSE

InitChannels ==
    /\ cache = [t \in Topics |-> NoHandle]
    /\ chans = <<>>
    /\ pubs = <<>>
    /\ subs = [t \in Topics |-> <<>>]
    /\ invoked = [t \in Topics |-> {}]
    /\ focus \in Topics


-----------------------------------------------------------------------------
(***************************************************************************)
(* CONTROLLER LIVENESS (RemoteControl)                                     *)
(*                                                                         *)
(* Time is counted in seconds.  The controller and the display run on      *)
(* different devices: the display's clock reads the controller's clock     *)
(* plus skew.  The poll interval ticks once per PollPeriod; a heartbeat    *)
(* arrives between two ticks, delay seconds after the display sent it.     *)
(***************************************************************************)

LivenessTimeout == 10   \* `timeSinceHeartbeat < 10000`
PollPeriod == 1         \* `setInterval(..., 1000)`

MaxSkew == 2            \* bound on the clock difference of the two devices
MaxDelay == 1           \* bound on a heartbeat's time in transit
MaxTime == 14           \* seconds of controller time explored

Null == -1              \* `null` of `useState<number | null>(null)`
StartTime == MaxSkew + MaxDelay + 1     \* keeps every timestamp positive

\* `useState(false)` of isPreviewActive.
InitialPreviewActive_true == TRUE
InitialPreviewActive == FALSE

\* sendHeartbeat's payload: `timestamp: Date.now()` on the display, for a
\* heartbeat sent when the controller's clock read sentAt.
HeartbeatTimestamp(sentAt) == sentAt + skew

\* `if (lastHeartbeat)`: null and 0 are falsy.
Truthy(n) == n # Null /\ n # 0

\* The subscribeToHeartbeat handler of RemoteControl.
OnHeartbeat(delay) ==
    /\ delay \in 0..MaxDelay
    /\ lastHeartbeat' = HeartbeatTimestamp(now - delay)
    /\ isPreviewActive' = TRUE
    /\ lastReceipt' = now
    /\ lastPoll' = Null
    /\ UNCHANGED <<now, skew, status>>

\* The subscribeToStatus handler of RemoteControl.
OnStatusUpdate(s) ==
    /\ status' = s
    /\ UNCHANGED <<now, skew, lastHeartbeat, isPreviewActive, lastReceipt, lastPoll>>

\* One period passes and the liveness interval callback runs.
PollTick ==
    /\ now < StartTime + MaxTime
    /\ now' = now + PollPeriod
    /\ lastPoll' = now'
    /\ isPreviewActive' = IF Truthy(lastHeartbeat)
                             THEN now' - lastHeartbeat < LivenessTimeout
                             ELSE isPreviewActive
    /\ UNCHANGED <<skew, lastHeartbeat, status, lastReceipt>>

InitLiveness ==
    /\ now = StartTime
    /\ skew \in -MaxSkew..MaxSkew
    /\ lastHeartbeat = Null
    /\ isPreviewActive = InitialPreviewActive
    /\ status = 0
    /\ lastReceipt = Null
    /\ lastPoll = Null

-----------------------------------------------------------------------------
(***************************************************************************)
(* DISPLAY PLAYBACK (SlideshowPreview)                                     *)
(***************************************************************************)

MaxItems == 3           \* length of the longest playback sequence explored

ItemTypes == {"photo", "video"}
Commands == {"next", "previous", "play", "pause", "reload", "black-screen", "show-screen"}

Sequences(n) == UNION {[1..k -> ItemTypes] : k \in 0..n}

NoOp == [cmd |-> "none", index |-> 0, playing |-> TRUE, black |-> FALSE,
         len |-> 0, loop |-> FALSE,
         indexAfter |-> 0, playingAfter |-> TRUE, blackAfter |-> FALSE]

\* case 'next': the setCurrentIndex updater.
CommandNextIndex_wrap(prev, len, lp) == IF prev + 1 >= len THEN 0 ELSE prev + 1
CommandNextIndex(prev, len, lp) ==
    IF prev + 1 >= len THEN (IF lp THEN 0 ELSE prev) ELSE prev + 1

\* case 'next': setIsPlaying(false) inside the updater.
CommandNextPlaying(prev, len, lp, playing) ==
    IF prev + 1 >= len /\ ~lp THEN FALSE ELSE playing

\* case 'previous': the setCurrentIndex updater.
CommandPreviousIndex_clamp(prev, len) == IF prev - 1 < 0 THEN 0 ELSE prev - 1
CommandPreviousIndex(prev, len) == IF prev - 1 < 0 THEN len - 1 ELSE prev - 1

\* case 'black-screen', case 'show-screen'; the switch has no default case.
CommandBlackScreen_default(c, black) == c = "black-screen"
CommandBlackScreen(c, black) ==
    CASE c = "black-screen" -> TRUE
      [] c = "show-screen"  -> FALSE
      [] OTHER              -> black

InitPlayback ==
    /\ loaded = FALSE
    /\ allItems = <<>>
    /\ loop = FALSE
    /\ currentIndex = 0
    /\ isPlaying = TRUE
    /\ isBlackScreen = FALSE
    /\ lastOp = NoOp

\* loadData: slideshow and allItems are stored.
LoadData ==
    /\ ~loaded
    /\ loaded' = TRUE
    /\ allItems' \in Sequences(MaxItems)
    /\ loop' \in BOOLEAN
    /\ UNCHANGED <<currentIndex, isPlaying, isBlackScreen, lastOp>>

\* handleCommand, the subscribeToCommands handler.
HandleCommand(c) ==
    LET len == Len(allItems) IN
    /\ IF c = "reload"
       THEN \* window.location.reload(): the page starts again
            /\ loaded' = FALSE
            /\ allItems' = <<>>
            /\ loop' = FALSE
            /\ currentIndex' = 0
            /\ isPlaying' = TRUE
            /\ isBlackScreen' = FALSE
       ELSE /\ currentIndex' =
                 CASE c = "next"     -> CommandNextIndex(currentIndex, len, loop)
                   [] c = "previous" -> CommandPreviousIndex(currentIndex, len)
                   [] OTHER          -> currentIndex
            /\ isPlaying' =
                 CASE c = "next"  -> CommandNextPlaying(currentIndex, len, loop, isPlaying)
                   [] c = "play"  -> TRUE
                   [] c = "pause" -> FALSE
                   [] OTHER       -> isPlaying
            /\ isBlackScreen' = CommandBlackScreen(c, isBlackScreen)
            /\ UNCHANGED <<loaded, allItems, loop>>
    /\ lastOp' = [cmd |-> c, index |-> currentIndex, playing |-> isPlaying,
                  black |-> isBlackScreen, len |-> len, loop |-> loop,
                  indexAfter |-> currentIndex', playingAfter |-> isPlaying',
                  blackAfter |-> isBlackScreen']

\* handleNext (ArrowRight, the on-screen button).
HandleNext ==
    /\ Len(allItems) # 0
    /\ IF currentIndex + 1 >= Len(allItems)
       THEN IF loop THEN currentIndex' = 0 /\ UNCHANGED isPlaying
                    ELSE isPlaying' = FALSE /\ UNCHANGED currentIndex
       ELSE currentIndex' = currentIndex + 1 /\ UNCHANGED isPlaying
    /\ UNCHANGED <<loaded, allItems, loop, isBlackScreen, lastOp>>

\* handlePrevious (ArrowLeft, the on-screen button).
HandlePrevious ==
    /\ Len(allItems) # 0
    /\ currentIndex' = IF currentIndex - 1 < 0 THEN Len(allItems) - 1
                                               ELSE currentIndex - 1
    /\ UNCHANGED <<loaded, allItems, loop, isPlaying, isBlackScreen, lastOp>>

\* handlePlayPause (space bar, the on-screen button).
HandlePlayPause ==
    /\ isPlaying' = ~isPlaying
    /\ UNCHANGED <<loaded, allItems, loop, currentIndex, isBlackScreen, lastOp>>

\* `allItems[currentIndex]` is an item.
HasCurrentItem(items, index) == index >= 0 /\ index < Len(items)

\* The auto-advance effect has a timer pending: it ran with the current
\* currentIndex, isPlaying, isBlackScreen, allItems and slideshow (its
\* dependencies), found an item that is not a video, and set the timeout.
TimerArmed ==
    /\ isPlaying
    /\ ~isBlackScreen
    /\ HasCurrentItem(allItems, currentIndex)
    /\ allItems[currentIndex + 1] # "video"

\* handleNext: the index it sets.
HandleNextIndex_wrap(index, len, lp) == IF index + 1 >= len THEN 0 ELSE index + 1
HandleNextIndex(index, len, lp) ==
    IF index + 1 >= len THEN (IF lp THEN 0 ELSE index) ELSE index + 1

\* handleNext: `setIsPlaying(false)` at the end of a sequence that does not loop.
HandleNextPlaying(index, len, lp, playing) ==
    IF index + 1 >= len /\ ~lp THEN FALSE ELSE playing

\* The timeout of the auto-advance effect fires: `handleNext()` of the render
\* the effect ran in.
TimerFires ==
    /\ TimerArmed
    /\ Len(allItems) # 0
    /\ currentIndex' = HandleNextIndex(currentIndex, Len(allItems), loop)
    /\ isPlaying' = HandleNextPlaying(currentIndex, Len(allItems), loop, isPlaying)
    /\ lastFire' = [fired |-> TRUE, index |-> currentIndex, playing |-> isPlaying,
                    len |-> Len(allItems), loop |-> loop,
                    indexAfter |-> currentIndex', playingAfter |-> isPlaying']
    /\ UNCHANGED <<loaded, allItems, loop, isBlackScreen, lastOp>>

\* handleVideoEnded: the page shows the current item, a video, and its
\* `ended` event calls handleNext.
HandleVideoEnded ==
    /\ loaded
    /\ HasCurrentItem(allItems, currentIndex)
    /\ allItems[currentIndex + 1] = "video"
    /\ ~isBlackScreen
    /\ HandleNext

NoFire == [fired |-> FALSE, index |-> 0, playing |-> TRUE, len |-> 0, loop |-> FALSE,
           indexAfter |-> 0, playingAfter |-> TRUE]

InitTimer == lastFire = NoFire

-----------------------------------------------------------------------------
(***************************************************************************)
(* CONTROLLER BUTTONS (RemoteControl, debounce)                            *)
(*                                                                         *)
(* Time is counted in units of 100 ms.  RemoteControl builds handleCommand *)
(* with debounce(...) in the component body, so every render makes a new   *)
(* debounced function whose `timeout` variable starts null; the buttons of *)
(* the latest render call the latest function.  A heartbeat or a status    *)
(* snapshot sets state (setLastHeartbeat, setStatus) and so renders.  A    *)
(* timer runs when it is due, before time moves on.                        *)
(***************************************************************************)

DebounceWait == 3       \* `debounce(..., 300)`

MaxPresses == 3         \* button presses in one run
MaxRenders == 2         \* renders caused by receipts in one run
MaxClock == 8           \* units of time explored

Buttons == {"previous", "next"}

NoTimer == [cmd |-> "none", due |-> -1]

\* executedFunction: clearTimeout(timeout) if set, then
\* timeout = setTimeout(later, wait), `later` holding this call's args.
debounce(pending, cmd, at) == [cmd |-> cmd, due |-> at + DebounceWait]

\* onClick={() => handleCommand(cmd)} on the buttons of the latest render.
Press(cmd) ==
    /\ Len(presses) < MaxPresses
    /\ timeout' = [timeout EXCEPT ![closure] = debounce(@, cmd, clock)]
    /\ presses' = Append(presses, [cmd |-> cmd, at |-> clock])
    /\ UNCHANGED <<clock, closure, issued>>

\* `later` of render r runs: timeout = null; func(...args), which calls
\* sendCommand(id, command).
Later(r) ==
    /\ timeout[r] # NoTimer
    /\ timeout[r].due = clock
    /\ timeout' = [timeout EXCEPT ![r] = NoTimer]
    /\ issued' = Append(issued, [cmd |-> timeout[r].cmd, at |-> clock])
    /\ UNCHANGED <<clock, closure, presses>>

\* A heartbeat (setLastHeartbeat, setIsPreviewActive) or a status snapshot
\* (setStatus) arrives: RemoteControl renders and debounce(...) runs again.
Receipt(kind) ==
    /\ kind \in {"heartbeat", "status"}
    /\ closure <= MaxRenders
    /\ closure' = closure + 1
    /\ UNCHANGED <<clock, timeout, presses, issued>>

\* 100 ms pass; every timer due by now has run.
Elapse ==
    /\ clock < MaxClock
    /\ \A r \in DOMAIN timeout : timeout[r] = NoTimer \/ timeout[r].due > clock
    /\ clock' = clock + 1
    /\ UNCHANGED <<closure, timeout, presses, issued>>

\* RemoteControl unmounts: the cleanups of its effects run (the two
\* unsubscribe functions, clearInterval of the liveness poll).  The debounced
\* handleCommand has no cancel and no cleanup refers to it, so its pending
\* timers stay.
ControllerUnmount ==
    /\ ~tornDown
    /\ tornDown' = TRUE
    /\ UNCHANGED <<clock, closure, timeout, presses, issued>>

InitButtons ==
    /\ clock = 0
    /\ closure = 1
    /\ timeout = [r \in 1..(MaxRenders + 1) |-> NoTimer]
    /\ presses = <<>>
    /\ issued = <<>>

-----------------------------------------------------------------------------
(***************************************************************************)
(* DISPLAY SESSION (SlideshowPreview effects)                              *)
(*                                                                         *)
(* Time is counted in seconds.  Mounting the page starts the session: the  *)
(* heartbeat effect and the status effect run.  A handler that sets state  *)
(* is followed by the render it causes, and the render by the effects      *)
(* whose dependencies changed.  An interval tick runs when it is due,      *)
(* before time moves on.                                                   *)
(***************************************************************************)

HeartbeatInterval == 5      \* `setInterval(..., 5000)`

MaxDisplayTime == 10        \* seconds of display time explored
MaxSnapshots == 2           \* broadcastStatus calls in one session

NoDeps == <<>>
NoSnapshot == [is_playing |-> FALSE, is_black_screen |-> FALSE,
               current_stream_index |-> -1, current_item_index |-> -1]

\* The status effect's dependency array (id does not change in a session).
StatusDeps(playing, black, index) == <<playing, black, index>>

\* React's test for running an effect again: some dependency changed.
DepsChanged_always(old, new) == TRUE
DepsChanged(old, new) == old # new

\* The payload the status effect hands to broadcastStatus.
Snapshot(playing, black, index) ==
    [is_playing |-> playing, is_black_screen |-> black,
     current_stream_index |-> 0, current_item_index |-> index]

\* `.catch(err => console.error(...))`: the interval after a send settled.
IntervalAfterSend_stopsOnFailure(due, ok) == IF ok THEN due ELSE Null
IntervalAfterSend(due, ok) == due

\* The status effect after a render with the new state.
StatusEffect ==
    LET deps == StatusDeps(isPlaying', isBlackScreen', currentIndex')
        snap == Snapshot(isPlaying', isBlackScreen', currentIndex')
    IN  IF DepsChanged(statusDeps, deps)
        THEN /\ statusDeps' = deps
             /\ lastSnapshot' = snap
             /\ published' = published + 1
             /\ repeated' = (repeated \/ (published > 0 /\ snap = lastSnapshot))
        ELSE UNCHANGED <<statusDeps, lastSnapshot, published, repeated>>

\* The page mounts with an id, its state at the useState initial values: the
\* heartbeat effect sends at once and starts the interval; the status effect
\* broadcasts the initial state.
Mount ==
    /\ session \in {"none", "ended"}
    /\ session' = "live"
    /\ startedAt' = dclock
    /\ heartbeats' = <<[at |-> dclock, outcome |-> "pending"]>>
    /\ heartbeatInterval' = dclock + HeartbeatInterval
    /\ loaded' = FALSE /\ allItems' = <<>> /\ loop' = FALSE
    /\ currentIndex' = 0 /\ isPlaying' = TRUE /\ isBlackScreen' = FALSE
    /\ lastOp' = NoOp
    /\ statusDeps' = StatusDeps(isPlaying', isBlackScreen', currentIndex')
    /\ lastSnapshot' = Snapshot(isPlaying', isBlackScreen', currentIndex')
    /\ published' = 1
    /\ repeated' = FALSE
    /\ UNCHANGED <<dclock, endedAt>>

\* The page unmounts: the heartbeat effect's cleanup clears the interval.
Unmount ==
    /\ session = "live"
    /\ session' = "ended"
    /\ endedAt' = dclock
    /\ heartbeatInterval' = Null
    /\ UNCHANGED <<dclock, startedAt, heartbeats, statusDeps, lastSnapshot,
                   published, repeated, playVars>>

\* The interval callback: sendHeartbeat(id).catch(...).
HeartbeatTick ==
    /\ session = "live"
    /\ heartbeatInterval = dclock
    /\ heartbeats' = Append(heartbeats, [at |-> dclock, outcome |-> "pending"])
    /\ heartbeatInterval' = dclock + HeartbeatInterval
    /\ UNCHANGED <<dclock, session, startedAt, endedAt, statusDeps, lastSnapshot,
                   published, repeated, playVars>>

\* The sendHeartbeat call i settles: it sent, or it rejected (join timeout,
\* channel error) and the catch handler logged the error.
HeartbeatSettled(i, ok) ==
    /\ i \in DOMAIN heartbeats
    /\ heartbeats[i].outcome = "pending"
    /\ heartbeats' = [heartbeats EXCEPT ![i].outcome = IF ok THEN "sent" ELSE "failed"]
    /\ heartbeatInterval' = IntervalAfterSend(heartbeatInterval, ok)
    /\ UNCHANGED <<dclock, session, startedAt, endedAt, statusDeps, lastSnapshot,
                   published, repeated, playVars>>

\* One second passes; an interval tick due by now has run.  Time is counted
\* from the first page load.
DisplayElapse ==
    /\ session # "none" \/ startedAt # Null
    /\ dclock < MaxDisplayTime
    /\ heartbeatInterval = Null \/ heartbeatInterval > dclock
    /\ dclock' = dclock + 1
    /\ UNCHANGED <<session, startedAt, endedAt, heartbeatInterval, heartbeats,
                   statusDeps, lastSnapshot, published, repeated, playVars>>

\* A handler of the mounted page sets state; the render and the status
\* effect follow.
Displayed(handler) ==
    /\ session = "live"
    /\ published < MaxSnapshots
    /\ handler
    /\ StatusEffect
    /\ UNCHANGED <<dclock, session, startedAt, endedAt, heartbeatInterval, heartbeats>>

\* `reload`: window.location.reload() discards the page; its timers and
\* effects go with it and the next page load mounts anew.
Reloaded ==
    /\ session = "live"
    /\ HandleCommand("reload")
    /\ session' = "none"
    /\ heartbeatInterval' = Null
    /\ statusDeps' = NoDeps
    /\ UNCHANGED <<dclock, startedAt, endedAt, heartbeats, lastSnapshot,
                   published, repeated>>

InitDisplay ==
    /\ dclock = 0
    /\ session = "none"
    /\ startedAt = Null
    /\ endedAt = Null
    /\ heartbeatInterval = Null
    /\ heartbeats = <<>>
    /\ statusDeps = NoDeps
    /\ lastSnapshot = NoSnapshot
    /\ published = 0
    /\ repeated = FALSE

-----------------------------------------------------------------------------
(***************************************************************************)
(* PLAYBACK SEQUENCER (SlideshowPreview.buildPlaybackSequence)             *)
(*                                                                         *)
(* A stream is its type, the number of its items and its frequency         *)
(* setting; its items are numbered in their order.  An item of a sequence  *)
(* is the pair of its stream's position among the streams and its own      *)
(* position in the stream, with the stream's type.  getStreams returns the *)
(* streams sorted by their order and each stream's items sorted by theirs. *)
(***************************************************************************)

DefaultFrequency == 5       \* `getValue(stream.settings?.frequency, 5)`

MaxStreams == 3             \* streams of a slideshow
MaxBaseItems == 3           \* items of a slideshow stream
MaxFrequencyItems == 2      \* items of the single-photo and video streams
MaxFrequency == 2           \* largest frequency setting
MaxShuffled == 2            \* base items of a shuffled slideshow

StreamTypes == {"slideshow", "single-photo", "video"}

\* settings.frequency: absent (`undefined`), or a number <<f>>, positive or
\* not.
Undefined == <<>>
FrequencySettings == {Undefined} \cup {<<f>> : f \in -1..MaxFrequency}

\* The streams a slideshow can hold.  The frequency of a stream without
\* items is never read (`if (stream.items.length > 0)`), so it is left absent.
StreamInputs ==
    [type : {"slideshow"}, count : 0..MaxBaseItems, frequency : {Undefined}]
    \cup [type : {"single-photo", "video"}, count : {0}, frequency : {Undefined}]
    \cup [type : {"single-photo", "video"}, count : 1..MaxFrequencyItems,
          frequency : FrequencySettings]

\* getValue(value, defaultValue) for a primitive or absent value.
getValue(value, defaultValue) == IF value = Undefined THEN defaultValue ELSE value[1]

\* The positions, in order, of the streams of one type: streams.filter(...).
RECURSIVE StreamsOfType(_, _, _)
StreamsOfType(strs, type, from) ==
    IF from > Len(strs) THEN <<>>
    ELSE (IF strs[from].type = type THEN <<from>> ELSE <<>>)
             \o StreamsOfType(strs, type, from + 1)

\* stream.items.map(item => ({ ...item, streamSettings, streamType })).
EnhancedItems(strs, st) ==
    [i \in 1..strs[st].count |->
        [stream |-> st, item |-> i, streamType |-> strs[st].type]]

\* The items of the streams at positions sts, stream after stream.
RECURSIVE ItemsOfStreams(_, _)
ItemsOfStreams(strs, sts) ==
    IF sts = <<>> THEN <<>>
    ELSE EnhancedItems(strs, Head(sts)) \o ItemsOfStreams(strs, Tail(sts))

\* frequencyStreams = [...singlePhotoStreams, ...videoStreams].
frequencyStreams(strs) ==
    StreamsOfType(strs, "single-photo", 1) \o StreamsOfType(strs, "video", 1)

\* `nextInsertAt: frequency`: the base position of an item's first insertion.
FirstInsertAt_afterFirst(frequency) == frequency + 1
FirstInsertAt(frequency) == frequency

\* `freqItem.nextInsertAt += freqItem.frequency`.
NextInsertAt_never(nextInsertAt, frequency) == 0
NextInsertAt(nextInsertAt, frequency) == nextInsertAt + frequency

\* frequencyItems: per item of the frequency streams, the item, its stream's
\* frequency and the base position of its next insertion.
frequencyItems(strs) ==
    LET items == ItemsOfStreams(strs, frequencyStreams(strs))
    IN  [k \in 1..Len(items) |->
            LET frequency == getValue(strs[items[k].stream].frequency, DefaultFrequency)
            IN  [item |-> items[k], frequency |-> frequency,
                 nextInsertAt |-> FirstInsertAt(frequency)]]

\* The while loop: push the next base item, then every frequency item due
\* at the new baseIndex, in the order of frequencyItems.
RECURSIVE InsertLoop(_, _, _, _)
InsertLoop(baseItems, baseIndex, freqItems, result) ==
    IF ~(baseIndex < Len(baseItems)) THEN result
    ELSE LET at  == baseIndex + 1
             due == SelectSeq(freqItems, LAMBDA f : f.nextInsertAt = at)
             pushed == [k \in 1..Len(due) |-> due[k].item]
             advanced == [k \in 1..Len(freqItems) |->
                            IF freqItems[k].nextInsertAt = at
                            THEN [freqItems[k] EXCEPT !.nextInsertAt =
                                     NextInsertAt(@, freqItems[k].frequency)]
                            ELSE freqItems[k]]
         IN  InsertLoop(baseItems, at, advanced,
                        Append(result, baseItems[at]) \o pushed)

\* buildPlaybackSequence(streams, shuffle), shuffleArray having returned the
\* base items in the order perm.
buildPlaybackSequence_shuffleAfter(strs, perm) ==
    LET slideshowItems == ItemsOfStreams(strs, StreamsOfType(strs, "slideshow", 1))
        inserted == InsertLoop(slideshowItems, 0, frequencyItems(strs), <<>>)
    IN  IF Len(slideshowItems) = 0
        THEN ItemsOfStreams(strs, StreamsOfType(strs, "single-photo", 1)
                                      \o StreamsOfType(strs, "video", 1))
        ELSE [k \in 1..Len(inserted) |->
                IF k <= Len(slideshowItems) THEN inserted[perm[k]] ELSE inserted[k]]
buildPlaybackSequence(strs, perm) ==
    LET slideshowItems == ItemsOfStreams(strs, StreamsOfType(strs, "slideshow", 1))
        baseItems == [k \in 1..Len(slideshowItems) |-> slideshowItems[perm[k]]]
    IN  IF Len(baseItems) = 0
        THEN ItemsOfStreams(strs, StreamsOfType(strs, "single-photo", 1)
                                      \o StreamsOfType(strs, "video", 1))
        ELSE InsertLoop(baseItems, 0, frequencyItems(strs), <<>>)

\* The number of base items of the streams.
BaseCount(strs) == Len(ItemsOfStreams(strs, StreamsOfType(strs, "slideshow", 1)))

\* The number of single-photo and video items of the streams.
FrequencyCount(strs) == Len(ItemsOfStreams(strs, frequencyStreams(strs)))

\* The orders shuffleArray can return for n items: every permutation.
ShuffleOrders(n) == {f \in [1..n -> 1..n] : \A i, j \in 1..n : f[i] = f[j] => i = j}

\* loadData calls buildPlaybackSequence(streamsData, shuffle).
Build ==
    /\ ~built
    /\ built' = TRUE
    /\ \E perm \in (IF shuffle THEN ShuffleOrders(BaseCount(streams))
                               ELSE {[k \in 1..BaseCount(streams) |-> k]}) :
          sequence' = buildPlaybackSequence(streams, perm)
    /\ UNCHANGED <<streams, shuffle>>

\* The page is loaded again with the same slideshow.
Rebuild ==
    /\ built
    /\ built' = FALSE
    /\ sequence' = <<>>
    /\ UNCHANGED <<streams, shuffle>>

InitSequence ==
    /\ \E n \in 0..MaxStreams : streams \in [1..n -> StreamInputs]
    /\ FrequencyCount(streams) <= MaxFrequencyItems
    /\ shuffle \in BOOLEAN
    /\ shuffle => BaseCount(streams) <= MaxShuffled
    /\ built = FALSE
    /\ sequence = <<>>

\* The sequencer at rest: no stream loaded.
RestOfSequence == streams = <<>> /\ shuffle = FALSE /\ built = FALSE /\ sequence = <<>>

-----------------------------------------------------------------------------
(***************************************************************************)
(* PLAYBACK SEQUENCER, STEP BY STEP                                        *)
(*                                                                         *)
(* One call of buildPlaybackSequence with its while loop taken pass by     *)
(* pass: Enter is the code before the loop, LoopPass one pass of the loop, *)
(* LoopReturn the exit of the loop and the return.                         *)
(***************************************************************************)

\* The base items as shuffleArray returned them in the order perm.
ShuffledBase(strs, perm) ==
    LET slideshowItems == ItemsOfStreams(strs, StreamsOfType(strs, "slideshow", 1))
    IN  [k \in 1..Len(slideshowItems) |-> slideshowItems[perm[k]]]

\* `while (baseIndex < baseItems.length)`.
WhileCondition_never(baseIndex, length) == FALSE
WhileCondition(baseIndex, length) == baseIndex < length

\* The code up to the loop: the base items, the early return of an empty
\* base, the frequency items.
Enter ==
    /\ loopPc = "idle"
    /\ \E perm \in (IF shuffle THEN ShuffleOrders(BaseCount(streams))
                               ELSE {[k \in 1..BaseCount(streams) |-> k]}) :
          loopBase' = ShuffledBase(streams, perm)
    /\ IF Len(loopBase') = 0
       THEN /\ loopPc' = "returned"
            /\ built' = TRUE
            /\ sequence' = ItemsOfStreams(streams, frequencyStreams(streams))
            /\ loopItems' = <<>>
       ELSE /\ loopPc' = "loop"
            /\ loopItems' = frequencyItems(streams)
            /\ UNCHANGED <<built, sequence>>
    /\ loopIndex' = 0
    /\ loopResult' = <<>>
    /\ passes' = 0
    /\ UNCHANGED <<streams, shuffle>>

\* One pass: push the next base item, `baseIndex++`, then push and advance
\* every frequency item whose nextInsertAt equals baseIndex.
LoopPass ==
    /\ loopPc = "loop"
    /\ WhileCondition(loopIndex, Len(loopBase))
    /\ LET at  == loopIndex + 1
           due == SelectSeq(loopItems, LAMBDA f : f.nextInsertAt = at)
       IN  /\ loopIndex' = at
           /\ loopResult' = Append(loopResult, loopBase[at])
                                \o [k \in 1..Len(due) |-> due[k].item]
           /\ loopItems' = [k \in 1..Len(loopItems) |->
                              IF loopItems[k].nextInsertAt = at
                              THEN [loopItems[k] EXCEPT !.nextInsertAt =
                                       NextInsertAt(@, loopItems[k].frequency)]
                              ELSE loopItems[k]]
    /\ passes' = passes + 1
    /\ UNCHANGED <<loopPc, loopBase, seqVars>>

\* The loop is left and the result returned.
LoopReturn ==
    /\ loopPc = "loop"
    /\ ~WhileCondition(loopIndex, Len(loopBase))
    /\ loopPc' = "returned"
    /\ built' = TRUE
    /\ sequence' = loopResult
    /\ UNCHANGED <<streams, shuffle, loopBase, loopIndex, loopItems, loopResult, passes>>

\* The streams of one type a slideshow can hold.
InputsOfType(type) == {s \in StreamInputs : s.type = type}

\* The streams stand as the code partitions them before the loop (the three
\* `streams.filter`): slideshow, then single-photo, then video streams.  The
\* loop reads the base items through their number alone, so shuffle is off.
InitPartitioned ==
    /\ \E a, b, c \in 0..MaxStreams :
          /\ a + b + c <= MaxStreams
          /\ \E slideshowStreams \in [1..a -> InputsOfType("slideshow")],
                singlePhotoStreams \in [1..b -> InputsOfType("single-photo")],
                videoStreams \in [1..c -> InputsOfType("video")] :
                streams = slideshowStreams \o singlePhotoStreams \o videoStreams
    /\ FrequencyCount(streams) <= MaxFrequencyItems
    /\ shuffle = FALSE
    /\ built = FALSE
    /\ sequence = <<>>

InitLoop ==
    /\ loopPc = "idle"
    /\ loopBase = <<>>
    /\ loopIndex = 0
    /\ loopItems = <<>>
    /\ loopResult = <<>>
    /\ passes = 0

-----------------------------------------------------------------------------
(***************************************************************************)
(* DISPLAY AUTO-ADVANCE EFFECT (SlideshowPreview)                          *)
(*                                                                         *)
(* The timeouts the auto-advance effect sets and clears.  An event's       *)
(* handler, the render its state change causes and the effects of that     *)
(* render are one step.  An effect runs again, its previous cleanup        *)
(* first, when one of its dependencies differs from the previous run's; a  *)
(* state setter called with the value the state already has causes no      *)
(* run.  Time is counted in ticks; a timeout fires when its time is up.    *)
(***************************************************************************)

ItemDuration == 2       \* ticks of an item's resolved duration

Events == {"mount", "load", "command", "control", "timeout", "ended", "error"}

\* `[currentIndex, isPlaying, isBlackScreen, allItems, slideshow]`.
AdvanceDeps(index, playing, black, items, ld, lp) ==
    <<index, playing, black, items, ld, lp>>

\* clearTimeout(id).
ClearTimeout(ts, id) == {tm \in ts : tm.id # id}

\* The id setTimeout returns: one that no pending timeout has.
NewTimeoutId(ts) ==
    CHOOSE n \in 1..(Cardinality(ts) + 1) :
        /\ \A tm \in ts : tm.id # n
        /\ \A m \in 1..(n - 1) : \E tm \in ts : tm.id = m

\* The cleanup the effect's previous run returned, if it returned one:
\* `if (timerRef.current) clearTimeout(timerRef.current)`.
RunCleanup_nothing(ts, ref, clean) == ts
RunCleanup(ts, ref, clean) == IF clean THEN ClearTimeout(ts, ref) ELSE ts

\* (An effect that sets its timeout on a video as on any other item.)
AutoAdvanceEffect_onVideoToo(ts, ref, index, playing, black, items, deps) ==
    IF ~playing \/ black \/ ~HasCurrentItem(items, index)
    THEN [timers |-> ClearTimeout(ts, ref), ref |-> ref, cleanup |-> FALSE]
    ELSE LET id == NewTimeoutId(ts)
         IN  [timers |-> ts \cup {[id |-> id, left |-> ItemDuration, deps |-> deps]},
              ref |-> id, cleanup |-> TRUE]

\* A run of the auto-advance effect, the pending timeouts being ts: the
\* pending timeouts, timerRef.current and the returned cleanup after it.
AutoAdvanceEffect(ts, ref, index, playing, black, items, deps) ==
    IF ~playing \/ black \/ ~HasCurrentItem(items, index)
    THEN [timers |-> ClearTimeout(ts, ref), ref |-> ref, cleanup |-> FALSE]
    ELSE IF items[index + 1] = "video"
    THEN [timers |-> ts, ref |-> ref, cleanup |-> FALSE]
    ELSE LET id == NewTimeoutId(ts)
         IN  [timers |-> ts \cup {[id |-> id, left |-> ItemDuration, deps |-> deps]},
              ref |-> id, cleanup |-> TRUE]

\* The render that follows an event, the pending timeouts being ts after
\* the event: the auto-advance effect runs if a dependency changed.
Rendered(ts) ==
    LET deps == AdvanceDeps(currentIndex', isPlaying', isBlackScreen', allItems',
                            loaded', loop')
    IN  IF DepsChanged(advanceDeps, deps)
        THEN LET e == AutoAdvanceEffect(RunCleanup(ts, timerRef, effectCleanup), timerRef,
                                        currentIndex', isPlaying', isBlackScreen',
                                        allItems', deps)
             IN  /\ pendingTimers' = e.timers
                 /\ timerRef' = e.ref
                 /\ effectCleanup' = e.cleanup
                 /\ advanceDeps' = deps
        ELSE /\ pendingTimers' = ts
             /\ UNCHANGED <<timerRef, effectCleanup, advanceDeps>>

\* The page after its mount: the effect ran once, with nothing to show.
InitEffect ==
    /\ pendingTimers = {}
    /\ timerRef = 0
    /\ effectCleanup = FALSE
    /\ advanceDeps = AdvanceDeps(0, TRUE, FALSE, <<>>, FALSE, FALSE)
    /\ cause = "mount"

\* loadData settles.
Loaded ==
    /\ LoadData
    /\ cause' = "load"
    /\ Rendered(pendingTimers)

\* A command arrives.  `reload` starts the page again: its timeouts are gone
\* with it.
CommandArrives(c) ==
    /\ HandleCommand(c)
    /\ cause' = "command"
    /\ IF c = "reload"
       THEN /\ pendingTimers' = {}
            /\ timerRef' = 0
            /\ effectCleanup' = FALSE
            /\ advanceDeps' = AdvanceDeps(0, TRUE, FALSE, <<>>, FALSE, FALSE)
       ELSE Rendered(pendingTimers)

\* A key or an on-screen button: handleNext, handlePrevious, handlePlayPause.
LocalControl ==
    /\ HandleNext \/ HandlePrevious \/ HandlePlayPause
    /\ cause' = "control"
    /\ Rendered(pendingTimers)

\* handleNext as the render with currentIndex = index, allItems = items and
\* slideshow.settings.loop = lp defined it.
HandleNextOf(index, items, lp) ==
    IF Len(items) = 0
    THEN UNCHANGED <<currentIndex, isPlaying>>
    ELSE IF index + 1 >= Len(items)
    THEN IF lp THEN currentIndex' = 0 /\ UNCHANGED isPlaying
               ELSE isPlaying' = FALSE /\ UNCHANGED currentIndex
    ELSE currentIndex' = index + 1 /\ UNCHANGED isPlaying

\* A timeout's time is up: the handleNext of the render its effect ran in.
TimeoutFires(tm) ==
    /\ tm \in pendingTimers
    /\ tm.left = 0
    /\ HandleNextOf(tm.deps[1], tm.deps[4], tm.deps[6])
    /\ UNCHANGED <<loaded, allItems, loop, isBlackScreen, lastOp>>
    /\ cause' = "timeout"
    /\ Rendered(pendingTimers \ {tm})

\* The video on the page plays to its end (`autoPlay`; nothing pauses it).
VideoEnded ==
    /\ HandleVideoEnded
    /\ cause' = "ended"
    /\ Rendered(pendingTimers)

\* The video or the image on the page fails: `onError` calls handleNext.
MediaError ==
    /\ loaded
    /\ HasCurrentItem(allItems, currentIndex)
    /\ ~isBlackScreen
    /\ HandleNext
    /\ cause' = "error"
    /\ Rendered(pendingTimers)

\* Time passes, no timeout being due.
Tick ==
    /\ pendingTimers # {}
    /\ \A tm \in pendingTimers : tm.left > 0
    /\ pendingTimers' = {[tm EXCEPT !.left = @ - 1] : tm \in pendingTimers}
    /\ UNCHANGED <<timerRef, effectCleanup, advanceDeps, cause>>

-----------------------------------------------------------------------------
(***************************************************************************)
(* DISPLAY STATE UPDATES (SlideshowPreview)                                *)
(*                                                                         *)
(* The state setters queue their updates; the next render applies them in  *)
(* call order, a value replacing the state and an updater function being   *)
(* applied to the state the updates before it produced.  Between two       *)
(* renders currentIndex, isPlaying and isBlackScreen are the values of the *)
(* latest render, the ones every handler's closure holds.                  *)
(***************************************************************************)

MaxBatch == 2           \* events handled between two renders

UpdateKinds == {"setCurrentIndex", "nextUpdater", "previousUpdater",
                "setIsPlaying", "setIsBlackScreen"}

Update(event, kind, index, flag) ==
    [event |-> event, kind |-> kind, index |-> index, flag |-> flag]

\* handleNext of the latest render: the update it queues.
QueuedByHandleNext(event) ==
    IF currentIndex + 1 >= Len(allItems)
    THEN IF loop THEN Update(event, "setCurrentIndex", 0, FALSE)
                 ELSE Update(event, "setIsPlaying", 0, FALSE)
    ELSE Update(event, "setCurrentIndex", currentIndex + 1, FALSE)

\* handlePrevious of the latest render: the update it queues.
QueuedByHandlePrevious(event) ==
    IF currentIndex - 1 < 0
    THEN Update(event, "setCurrentIndex", Len(allItems) - 1, FALSE)
    ELSE Update(event, "setCurrentIndex", currentIndex - 1, FALSE)

\* handleCommand: the update command c queues.
QueuedByCommand(c) ==
    CASE c = "next"         -> Update(c, "nextUpdater", 0, FALSE)
      [] c = "previous"     -> Update(c, "previousUpdater", 0, FALSE)
      [] c = "play"         -> Update(c, "setIsPlaying", 0, TRUE)
      [] c = "pause"        -> Update(c, "setIsPlaying", 0, FALSE)
      [] c = "black-screen" -> Update(c, "setIsBlackScreen", 0, TRUE)
      [] c = "show-screen"  -> Update(c, "setIsBlackScreen", 0, FALSE)

\* The state one update leaves, st being the state the updates before it
\* left.  The `next` updater calls setIsPlaying(false) at the end of a
\* sequence that does not loop.
ApplyUpdate(u, st, len, lp) ==
    CASE u.kind = "setCurrentIndex"  -> [st EXCEPT !.index = u.index]
      [] u.kind = "nextUpdater"      ->
            [st EXCEPT !.index = CommandNextIndex(st.index, len, lp),
                       !.playing = CommandNextPlaying(st.index, len, lp, st.playing)]
      [] u.kind = "previousUpdater"  ->
            [st EXCEPT !.index = CommandPreviousIndex(st.index, len)]
      [] u.kind = "setIsPlaying"     -> [st EXCEPT !.playing = u.flag]
      [] u.kind = "setIsBlackScreen" -> [st EXCEPT !.black = u.flag]

RECURSIVE ApplyUpdates(_, _, _, _)
ApplyUpdates(us, st, len, lp) ==
    IF us = <<>> THEN st
    ELSE ApplyUpdates(Tail(us), ApplyUpdate(Head(us), st, len, lp), len, lp)

NoBatch == [events |-> <<>>, index |-> 0, indexAfter |-> 0]

InitBatch ==
    /\ updates = <<>>
    /\ lastBatch = NoBatch

\* An event whose handler queues update u.
Queue(u) ==
    /\ Len(updates) < MaxBatch
    /\ updates' = Append(updates, u)
    /\ lastBatch' = NoBatch

\* The timeout of the auto-advance effect fires, or the video on the page
\* ends, or the item on the page fails: handleNext.  Each happens once for
\* the item on the page.
AdvanceQueued ==
    /\ loaded
    /\ HasCurrentItem(allItems, currentIndex)
    /\ ~isBlackScreen
    /\ isPlaying \/ allItems[currentIndex + 1] = "video"
    /\ \A i \in DOMAIN updates : updates[i].event # "advance"
    /\ Queue(QueuedByHandleNext("advance"))

\* A command other than `reload` arrives.
CommandQueued(c) ==
    /\ c \in Commands \ {"reload"}
    /\ Queue(QueuedByCommand(c))

\* A key or an on-screen button.
ControlQueued ==
    /\ Len(allItems) # 0
    /\ \/ Queue(QueuedByHandleNext("control"))
       \/ Queue(QueuedByHandlePrevious("control"))
       \/ Queue(Update("control", "setIsPlaying", 0, ~isPlaying))

\* The render: the queued updates are applied in call order.
Render ==
    /\ updates # <<>>
    /\ LET st == ApplyUpdates(updates,
                     [index |-> currentIndex, playing |-> isPlaying,
                      black |-> isBlackScreen], Len(allItems), loop)
       IN  /\ currentIndex' = st.index
           /\ isPlaying' = st.playing
           /\ isBlackScreen' = st.black
           /\ lastBatch' = [events |-> [i \in DOMAIN updates |-> updates[i].event],
                            index |-> currentIndex, indexAfter |-> st.index]
    /\ updates' = <<>>
    /\ UNCHANGED <<loaded, allItems, loop, lastOp>>

-----------------------------------------------------------------------------
(***************************************************************************)
(* COMMAND LOG (stream.ts: slideshow_commands)                             *)
(*                                                                         *)
(* The table behind sendCommand's insert, for one slideshow, and the two   *)
(* other functions of the command service that touch it.                   *)
(***************************************************************************)

HistoryLimit == 2       \* `limit` of a getCommandHistory call

InitLog ==
    /\ commandLog = <<>>
    /\ appended = <<>>
    /\ returned = <<>>

\* The rows of log in reverse order (`order('timestamp', { ascending: false })`).
RECURSIVE Descending(_)
Descending(log) ==
    IF log = <<>> THEN <<>> ELSE Append(Descending(Tail(log)), Head(log))

\* The insert of call c settles: with no error the row is stored.
InsertSettled(c, ok) ==
    /\ AppendSettled(c, ok)
    /\ commandLog' = IF ok THEN Append(commandLog, c) ELSE commandLog
    /\ appended' = IF ok THEN Append(appended, c) ELSE appended
    /\ UNCHANGED returned

\* getCommandHistory: the latest rows first, at most `limit` of them.
GetCommandHistory ==
    /\ returned' = SubSeq(Descending(commandLog), 1,
                          IF Len(commandLog) < HistoryLimit THEN Len(commandLog)
                                                            ELSE HistoryLimit)
    /\ UNCHANGED <<commandLog, appended>>

\* clearCommandHistory: `.delete().eq('slideshow_id', slideshowId)`; with an
\* error nothing is deleted and the call throws.
ClearCommandHistory(ok) ==
    /\ commandLog' = IF ok THEN <<>> ELSE commandLog
    /\ UNCHANGED <<appended, returned>>

-----------------------------------------------------------------------------
(* Specifications *)

InitSend == calls = <<>>

\* The parts of the program a specification does not exercise, at rest.
RestOfChannels == InitChannels /\ focus = "commands"
RestOfLiveness == InitLiveness /\ skew = 0

Init ==
    /\ InitChannels /\ RestOfLiveness /\ InitPlayback /\ InitSend /\ InitButtons
    /\ InitDisplay /\ InitEcho /\ InitUnsub /\ RestOfSequence /\ InitLoop /\ InitTimer
    /\ InitTeardown /\ InitEffect /\ InitBatch /\ InitLog

Next ==
    \/ Publish(focus) /\ UNCHANGED exceptChan
    \/ \E p \in 1..MaxCalls : PublishTimeout(p) /\ UNCHANGED exceptChan
    \/ Subscribe(focus) /\ UNCHANGED exceptChan
    \/ \E h \in 1..MaxCalls : Unsubscribe(h) /\ UNCHANGED exceptChan
    \/ \E h \in 1..MaxCalls : RelayJoined(h) /\ UNCHANGED exceptChan
    \/ \E h \in 1..MaxCalls, s \in {"CHANNEL_ERROR", "TIMED_OUT"} :
          RelayFailed(h, s) /\ UNCHANGED exceptChan
    \/ \E h \in 1..MaxCalls : RelayRejoin(h) /\ UNCHANGED exceptChan
    \/ Deliver(focus) /\ UNCHANGED exceptChan

Spec == Init /\ [][Next]_vars

NextLiveness ==
    \/ \E d \in 0..MaxDelay : OnHeartbeat(d) /\ UNCHANGED exceptLive
    \/ \E s \in 1..2 : OnStatusUpdate(s) /\ UNCHANGED exceptLive
    \/ PollTick /\ UNCHANGED exceptLive

LivenessInit ==
    /\ InitChannels /\ focus = "heartbeat"
    /\ InitLiveness /\ InitPlayback /\ InitSend /\ InitButtons /\ InitDisplay
    /\ InitEcho /\ InitUnsub /\ RestOfSequence /\ InitLoop /\ InitTimer
    /\ InitTeardown /\ InitEffect /\ InitBatch /\ InitLog

SpecLiveness == LivenessInit /\ [][NextLiveness]_vars

NextPlayback ==
    \/ LoadData /\ UNCHANGED exceptPlay
    \/ \E c \in Commands \cup {"unknown"} : HandleCommand(c) /\ UNCHANGED exceptPlay
    \/ HandleNext /\ UNCHANGED exceptPlay
    \/ HandlePrevious /\ UNCHANGED exceptPlay
    \/ HandlePlayPause /\ UNCHANGED exceptPlay

PlaybackInit ==
    RestOfChannels /\ RestOfLiveness /\ InitPlayback /\ InitSend /\ InitButtons
    /\ InitDisplay /\ InitEcho /\ InitUnsub /\ RestOfSequence /\ InitLoop /\ InitTimer
    /\ InitTeardown /\ InitEffect /\ InitBatch /\ InitLog

SpecPlayback == PlaybackInit /\ [][NextPlayback]_vars

\* The display playing on its own: the auto-advance timer, the local
\* controls, the video's ended event and the commands that start, stop and
\* blank the show.
NextTimer ==
    \/ LoadData /\ UNCHANGED exceptPlay
    \/ TimerFires /\ UNCHANGED exceptTimer
    \/ HandleVideoEnded /\ UNCHANGED exceptPlay
    \/ HandleNext /\ UNCHANGED exceptPlay
    \/ HandlePrevious /\ UNCHANGED exceptPlay
    \/ HandlePlayPause /\ UNCHANGED exceptPlay
    \/ \E c \in {"play", "pause", "black-screen", "show-screen"} :
          HandleCommand(c) /\ UNCHANGED exceptPlay

TimerInit ==
    RestOfChannels /\ RestOfLiveness /\ InitPlayback /\ InitSend /\ InitButtons
    /\ InitDisplay /\ InitEcho /\ InitUnsub /\ RestOfSequence /\ InitLoop /\ InitTimer
    /\ InitTeardown /\ InitEffect /\ InitBatch /\ InitLog

SpecTimer == TimerInit /\ [][NextTimer]_vars

\* The display with its auto-advance effect: every event that changes what
\* the page shows, and the passing of time.
NextAdvance ==
    \/ Loaded /\ UNCHANGED exceptAdvance
    \/ \E c \in Commands : CommandArrives(c) /\ UNCHANGED exceptAdvance
    \/ LocalControl /\ UNCHANGED exceptAdvance
    \/ \E tm \in pendingTimers : TimeoutFires(tm) /\ UNCHANGED exceptAdvance
    \/ VideoEnded /\ UNCHANGED exceptAdvance
    \/ MediaError /\ UNCHANGED exceptAdvance
    \/ Tick /\ UNCHANGED playVars /\ UNCHANGED exceptAdvance

AdvanceInit ==
    RestOfChannels /\ RestOfLiveness /\ InitPlayback /\ InitSend /\ InitButtons
    /\ InitDisplay /\ InitEcho /\ InitUnsub /\ RestOfSequence /\ InitLoop /\ InitTimer
    /\ InitTeardown /\ InitEffect /\ InitBatch /\ InitLog

SpecAdvance == AdvanceInit /\ [][NextAdvance]_vars

\* The display between renders: events queue their state updates, a render
\* applies them.
NextBatch ==
    \/ LoadData /\ UNCHANGED <<batchVars, exceptBatch>>
    \/ AdvanceQueued /\ UNCHANGED <<playVars, exceptBatch>>
    \/ \E c \in Commands : CommandQueued(c) /\ UNCHANGED <<playVars, exceptBatch>>
    \/ ControlQueued /\ UNCHANGED <<playVars, exceptBatch>>
    \/ Render /\ UNCHANGED exceptBatch

BatchInit ==
    RestOfChannels /\ RestOfLiveness /\ InitPlayback /\ InitSend /\ InitButtons
    /\ InitDisplay /\ InitEcho /\ InitUnsub /\ RestOfSequence /\ InitLoop /\ InitTimer
    /\ InitTeardown /\ InitEffect /\ InitBatch /\ InitLog

SpecBatch == BatchInit /\ [][NextBatch]_vars

\* The command service as the controller uses it (RemoteControl sends
\* commands and never subscribes to them): sendCommand with its log append,
\* and the relay.
NextCommand ==
    \/ SendCommand /\ UNCHANGED exceptSend
    \/ \E c \in 1..MaxSends, ok \in BOOLEAN : AppendSettled(c, ok) /\ UNCHANGED exceptSend
    \/ \E p \in 1..MaxCalls : PublishTimeout(p) /\ UNCHANGED exceptChan
    \/ \E h \in 1..MaxCalls : RelayJoined(h) /\ UNCHANGED exceptChan
    \/ \E h \in 1..MaxCalls, s \in {"CHANNEL_ERROR", "TIMED_OUT"} :
          RelayFailed(h, s) /\ UNCHANGED exceptChan
    \/ \E h \in 1..MaxCalls : RelayRejoin(h) /\ UNCHANGED exceptChan

CommandInit ==
    RestOfChannels /\ RestOfLiveness /\ InitPlayback /\ InitSend /\ InitButtons
    /\ InitDisplay /\ InitEcho /\ InitUnsub /\ RestOfSequence /\ InitLoop /\ InitTimer
    /\ InitTeardown /\ InitEffect /\ InitBatch /\ InitLog

SpecCommand == CommandInit /\ [][NextCommand]_vars

\* The command service with its log: sendCommand, getCommandHistory,
\* clearCommandHistory, and the relay.
NextLog ==
    \/ SendCommand /\ UNCHANGED <<logVars, exceptLog>>
    \/ \E c \in 1..MaxSends, ok \in BOOLEAN : InsertSettled(c, ok) /\ UNCHANGED exceptLog
    \/ GetCommandHistory /\ UNCHANGED <<chanVars, sendVars, exceptLog>>
    \/ \E ok \in BOOLEAN : ClearCommandHistory(ok) /\ UNCHANGED <<chanVars, sendVars, exceptLog>>
    \/ \E h \in 1..MaxCalls : RelayJoined(h) /\ UNCHANGED exceptChan
    \/ \E h \in 1..MaxCalls, s \in {"CHANNEL_ERROR", "TIMED_OUT"} :
          RelayFailed(h, s) /\ UNCHANGED exceptChan

LogInit ==
    RestOfChannels /\ RestOfLiveness /\ InitPlayback /\ InitSend /\ InitButtons
    /\ InitDisplay /\ InitEcho /\ InitUnsub /\ RestOfSequence /\ InitLoop /\ InitTimer
    /\ InitTeardown /\ InitEffect /\ InitBatch /\ InitLog

SpecLog == LogInit /\ [][NextLog]_vars

\* A process that publishes and subscribes on one topic, with the relay
\* handing its own messages back.
NextEcho ==
    \/ Publish(focus) /\ RelayOwn /\ UNCHANGED exceptEcho
    \/ Subscribe(focus) /\ RelayOwn /\ UNCHANGED exceptEcho
    \/ \E h \in 1..MaxCalls : Unsubscribe(h) /\ RelayOwn /\ UNCHANGED exceptEcho
    \/ \E h \in 1..MaxCalls : RelayJoined(h) /\ RelayOwn /\ UNCHANGED exceptEcho
    \/ \E h \in 1..MaxCalls, s \in {"CHANNEL_ERROR", "TIMED_OUT"} :
          RelayFailed(h, s) /\ RelayOwn /\ UNCHANGED exceptEcho
    \/ \E h \in 1..MaxCalls : RelayRejoin(h) /\ RelayOwn /\ UNCHANGED exceptEcho

EchoInit ==
    /\ InitChannels /\ RestOfLiveness /\ InitPlayback /\ InitSend /\ InitButtons
    /\ InitDisplay /\ InitEcho /\ InitUnsub /\ RestOfSequence /\ InitLoop /\ InitTimer
    /\ InitTeardown /\ InitEffect /\ InitBatch /\ InitLog

SpecEcho == EchoInit /\ [][NextEcho]_vars

\* The channel manager with the returned unsubscribe functions called any
\* number of times.
NextUnsubscribe ==
    \/ Publish(focus) /\ OtherOperation /\ UNCHANGED exceptUnsub
    \/ \E p \in 1..MaxCalls : PublishTimeout(p) /\ OtherOperation /\ UNCHANGED exceptUnsub
    \/ Subscribe(focus) /\ OtherOperation /\ UNCHANGED exceptUnsub
    \/ \E h \in 1..MaxCalls :
          Unsubscribe(h) /\ UnsubscribeCalled(h) /\ UNCHANGED exceptUnsub
    \/ \E h \in 1..MaxCalls : RelayJoined(h) /\ OtherOperation /\ UNCHANGED exceptUnsub
    \/ \E h \in 1..MaxCalls, s \in {"CHANNEL_ERROR", "TIMED_OUT"} :
          RelayFailed(h, s) /\ OtherOperation /\ UNCHANGED exceptUnsub
    \/ \E h \in 1..MaxCalls : RelayRejoin(h) /\ OtherOperation /\ UNCHANGED exceptUnsub

UnsubscribeInit ==
    /\ InitChannels /\ RestOfLiveness /\ InitPlayback /\ InitSend /\ InitButtons
    /\ InitDisplay /\ InitEcho /\ InitUnsub /\ RestOfSequence /\ InitLoop /\ InitTimer
    /\ InitTeardown /\ InitEffect /\ InitBatch /\ InitLog

SpecUnsubscribe == UnsubscribeInit /\ [][NextUnsubscribe]_vars

\* The channel manager in a session that ends: the services are called
\* while the page is mounted, the relay goes on after it has unmounted.
NextTeardown ==
    \/ ~tornDown /\ Publish(focus) /\ UNCHANGED exceptChan
    \/ \E p \in 1..MaxCalls : PublishTimeout(p) /\ UNCHANGED exceptChan
    \/ ~tornDown /\ Subscribe(focus) /\ UNCHANGED exceptChan
    \/ \E h \in 1..MaxCalls : ~tornDown /\ Unsubscribe(h) /\ UNCHANGED exceptChan
    \/ \E h \in 1..MaxCalls : RelayJoined(h) /\ UNCHANGED exceptChan
    \/ \E h \in 1..MaxCalls, s \in {"CHANNEL_ERROR", "TIMED_OUT"} :
          RelayFailed(h, s) /\ UNCHANGED exceptChan
    \/ \E h \in 1..MaxCalls : RelayRejoin(h) /\ UNCHANGED exceptChan
    \/ Teardown /\ UNCHANGED exceptTeardown

TeardownInit ==
    /\ InitChannels /\ RestOfLiveness /\ InitPlayback /\ InitSend /\ InitButtons
    /\ InitDisplay /\ InitEcho /\ InitUnsub /\ RestOfSequence /\ InitLoop /\ InitTimer
    /\ InitTeardown /\ InitEffect /\ InitBatch /\ InitLog

SpecTeardown == TeardownInit /\ [][NextTeardown]_vars

\* buildPlaybackSequence applied to every slideshow within the bounds.
NextSequence ==
    \/ Build /\ UNCHANGED exceptSeq
    \/ Rebuild /\ UNCHANGED exceptSeq

SequenceInit ==
    /\ RestOfChannels /\ RestOfLiveness /\ InitPlayback /\ InitSend /\ InitButtons
    /\ InitDisplay /\ InitEcho /\ InitUnsub /\ InitSequence /\ InitLoop /\ InitTimer
    /\ InitTeardown /\ InitEffect /\ InitBatch /\ InitLog

SpecSequence == SequenceInit /\ [][NextSequence]_vars

\* One call of buildPlaybackSequence, pass by pass, on every slideshow
\* within the bounds.  The call runs to its end: nothing else runs in the
\* page's thread while it does.
NextLoop ==
    \/ Enter /\ UNCHANGED exceptLoop
    \/ LoopPass /\ UNCHANGED exceptLoop
    \/ LoopReturn /\ UNCHANGED exceptLoop

LoopInit ==
    /\ RestOfChannels /\ RestOfLiveness /\ InitPlayback /\ InitSend /\ InitButtons
    /\ InitDisplay /\ InitEcho /\ InitUnsub /\ InitPartitioned /\ InitLoop /\ InitTimer
    /\ InitTeardown /\ InitEffect /\ InitBatch /\ InitLog

SpecLoop == LoopInit /\ [][NextLoop]_vars /\ WF_vars(NextLoop)

\* The buttons of the controller, with the receipts that render it.
NextButtons ==
    \/ \E cmd \in Buttons : Press(cmd) /\ UNCHANGED exceptButton
    \/ \E r \in 1..(MaxRenders + 1) : Later(r) /\ UNCHANGED exceptButton
    \/ \E kind \in {"heartbeat", "status"} : Receipt(kind) /\ UNCHANGED exceptButton
    \/ Elapse /\ UNCHANGED exceptButton

ButtonsInit ==
    RestOfChannels /\ RestOfLiveness /\ InitPlayback /\ InitSend /\ InitButtons
    /\ InitDisplay /\ InitEcho /\ InitUnsub /\ RestOfSequence /\ InitLoop /\ InitTimer
    /\ InitTeardown /\ InitEffect /\ InitBatch /\ InitLog

SpecButtons == ButtonsInit /\ [][NextButtons]_vars

\* The buttons of a controller page that unmounts: the page is pressed and
\* rendered while it is mounted, time and timers go on afterwards.
NextControllerTeardown ==
    \/ \E cmd \in Buttons : ~tornDown /\ Press(cmd) /\ UNCHANGED exceptButton
    \/ \E r \in 1..(MaxRenders + 1) : Later(r) /\ UNCHANGED exceptButton
    \/ \E kind \in {"heartbeat", "status"} :
          ~tornDown /\ Receipt(kind) /\ UNCHANGED exceptButton
    \/ Elapse /\ UNCHANGED exceptButton
    \/ ControllerUnmount /\ UNCHANGED exceptControllerUnmount

ControllerTeardownInit ==
    RestOfChannels /\ RestOfLiveness /\ InitPlayback /\ InitSend /\ InitButtons
    /\ InitDisplay /\ InitEcho /\ InitUnsub /\ RestOfSequence /\ InitLoop /\ InitTimer
    /\ InitTeardown /\ InitEffect /\ InitBatch /\ InitLog

SpecControllerTeardown == ControllerTeardownInit /\ [][NextControllerTeardown]_vars

\* The display page's session and its heartbeat interval.
NextHeartbeat ==
    \/ Mount /\ UNCHANGED exceptDisplay
    \/ Unmount /\ UNCHANGED exceptDisplay
    \/ HeartbeatTick /\ UNCHANGED exceptDisplay
    \/ \E i \in 1..MaxDisplayTime, ok \in BOOLEAN :
          HeartbeatSettled(i, ok) /\ UNCHANGED exceptDisplay
    \/ DisplayElapse /\ UNCHANGED exceptDisplay

HeartbeatInit ==
    RestOfChannels /\ RestOfLiveness /\ InitPlayback /\ InitSend /\ InitButtons
    /\ InitDisplay /\ InitEcho /\ InitUnsub /\ RestOfSequence /\ InitLoop /\ InitTimer
    /\ InitTeardown /\ InitEffect /\ InitBatch /\ InitLog

SpecHeartbeat == HeartbeatInit /\ [][NextHeartbeat]_vars

\* The display page's handlers with the status effect, beside the heartbeat
\* interval.
NextStatus ==
    \/ Mount /\ UNCHANGED exceptDisplay
    \/ HeartbeatTick /\ UNCHANGED exceptDisplay
    \/ DisplayElapse /\ UNCHANGED exceptDisplay
    \/ Displayed(LoadData) /\ UNCHANGED exceptDisplay
    \/ \E c \in (Commands \ {"reload"}) \cup {"unknown"} :
          Displayed(HandleCommand(c)) /\ UNCHANGED exceptDisplay
    \/ Displayed(HandleNext) /\ UNCHANGED exceptDisplay
    \/ Displayed(HandlePrevious) /\ UNCHANGED exceptDisplay
    \/ Displayed(HandlePlayPause) /\ UNCHANGED exceptDisplay
    \/ Reloaded /\ UNCHANGED exceptDisplay

StatusInit ==
    RestOfChannels /\ RestOfLiveness /\ InitPlayback /\ InitSend /\ InitButtons
    /\ InitDisplay /\ InitEcho /\ InitUnsub /\ RestOfSequence /\ InitLoop /\ InitTimer
    /\ InitTeardown /\ InitEffect /\ InitBatch /\ InitLog

SpecStatus == StatusInit /\ [][NextStatus]_vars

-----------------------------------------------------------------------------
(***************************************************************************)
(* CLAIMS                                                                  *)
(***************************************************************************)

\* The handles of topic t that are live: connecting or joined.
Live(t) == {h \in DOMAIN chans : /\ chans[h].topic = t
                                 /\ chans[h].state \in {"connecting", "joined"}}

\* C1: a publish sends only on a handle that is joined at the moment of the
\* send, and a publish that found its handle not joined sends only after its
\* own status callback has seen SUBSCRIBED; nothing is ever sent on an idle,
\* connecting or errored handle.
C1_SendOnlyWhenJoined ==
    \A p \in DOMAIN pubs :
        /\ pubs[p].pc = "sent" <=> pubs[p].sentOn # "none"
        /\ pubs[p].sentOn # "none" =>
              /\ pubs[p].sentOn = "joined"
              /\ pubs[p].stateAtCall = "joined" \/ pubs[p].sawSubscribed

\* C1 witness: a publish on a never-subscribed topic created the handle,
\* waited for the handshake and sent after SUBSCRIBED.
C1_Witness ==
    \E p \in DOMAIN pubs :
        /\ pubs[p].created /\ pubs[p].stateAtCall = "idle"
        /\ pubs[p].pc = "sent" /\ pubs[p].sawSubscribed

\* C2 (as claimed): once a topic has been subscribed to twice, a message
\* delivered afterwards invokes the second call's handler only, never the
\* first call's.
C2_OnlySecondHandler ==
    \A t \in Topics :
        Len(subs[t]) = 2 => invoked[t] \subseteq {subs[t][2]}

\* C3 (as claimed): at most one handle per topic is live, and it is the handle
\* the cache stores for the topic.
C3_OneLiveHandleCached ==
    \A t \in Topics :
        /\ Cardinality(Live(t)) <= 1
        /\ Live(t) \subseteq {cache[t]}

\* C4 (as claimed): a publish whose wait for the join handshake timed out has
\* had its handle removed from the cache, and no later publish is handed a
\* handle on which a publish timed out.
C4_TimeoutEvicts ==
    \A p \in DOMAIN pubs :
        /\ pubs[p].pc = "timeout" => cache[pubs[p].topic] # pubs[p].handle
        /\ ~pubs[p].reusedTimedOut

\* C5: a publish whose status callback saw CHANNEL_ERROR, TIMED_OUT or CLOSED
\* while it waited for the handshake has rejected, has sent nothing, and its
\* handle is no longer cached; no later publish is handed the failed handle.
C5_FailedJoinEvicts ==
    \A p \in DOMAIN pubs :
        /\ pubs[p].joinFailed =>
              /\ pubs[p].pc = "failed"
              /\ pubs[p].sentOn = "none"
              /\ cache[pubs[p].topic] # pubs[p].handle
        /\ ~pubs[p].reusedFailed

\* C5 witness: a publish failed its handshake and a later publish on the same
\* topic created a new handle.
C5_Witness ==
    \E p, q \in DOMAIN pubs :
        /\ p < q
        /\ pubs[p].joinFailed
        /\ pubs[q].topic = pubs[p].topic
        /\ pubs[q].created /\ pubs[q].handle # pubs[p].handle

\* C6 (as claimed): at every poll tick since the latest heartbeat at which at
\* least LivenessTimeout seconds of the controller's clock have passed since
\* that heartbeat was received, displayActive is false.
C6_InactiveAfterTimeout ==
    (/\ lastReceipt # Null
     /\ lastPoll # Null
     /\ lastPoll - lastReceipt >= LivenessTimeout) => ~isPreviewActive

\* C7 (as claimed): whenever displayActive is true, a heartbeat has been
\* received less than LivenessTimeout plus one poll period ago on the
\* controller's clock, whatever timestamp the heartbeat carried.
C7_ActiveImpliesRecentReceipt ==
    isPreviewActive =>
        /\ lastReceipt # Null
        /\ now - lastReceipt < LivenessTimeout + PollPeriod

\* C8: a controller that has received no heartbeat has displayActive = false,
\* however many poll ticks have run and status snapshots have arrived.
C8_NeverHeardInactive == lastReceipt = Null => ~isPreviewActive

\* C8 witness: no heartbeat yet, the liveness timeout has long passed, the
\* poll has ticked and a status snapshot has arrived.
C8_Witness ==
    /\ lastReceipt = Null
    /\ lastPoll # Null
    /\ now >= StartTime + LivenessTimeout
    /\ status # 0

\* C9: `next` on a non-empty sequence: at the last index it yields index 0
\* when looping is enabled and, when looping is disabled, keeps the index and
\* sets isPlaying = false; at any other index it adds one to the index and
\* keeps isPlaying.
C9_NextCommand ==
    (lastOp.cmd = "next" /\ lastOp.len > 0) =>
        IF lastOp.index = lastOp.len - 1
        THEN IF lastOp.loop
                THEN lastOp.indexAfter = 0
                ELSE lastOp.indexAfter = lastOp.index /\ lastOp.playingAfter = FALSE
        ELSE /\ lastOp.indexAfter = lastOp.index + 1
             /\ lastOp.playingAfter = lastOp.playing

\* C9 witness: `next` handled at the last index of a sequence of several
\* items, looping disabled, while playing.
C9_Witness ==
    /\ lastOp.cmd = "next"
    /\ lastOp.len >= 2
    /\ lastOp.index = lastOp.len - 1
    /\ ~lastOp.loop
    /\ lastOp.playing

\* C10: `previous` at a valid index subtracts one and, at index 0, wraps to
\* the last index whether or not looping is enabled; it changes neither
\* isPlaying nor isBlackScreen.
C10_PreviousCommand ==
    lastOp.cmd = "previous" =>
        /\ lastOp.index > 0 => lastOp.indexAfter = lastOp.index - 1
        /\ lastOp.index = 0 => lastOp.indexAfter = lastOp.len - 1
        /\ lastOp.playingAfter = lastOp.playing
        /\ lastOp.blackAfter = lastOp.black

\* C10 witness: `previous` handled at index 0 of a sequence of several items
\* with looping disabled.
C10_Witness ==
    /\ lastOp.cmd = "previous"
    /\ lastOp.index = 0
    /\ lastOp.len >= 2
    /\ ~lastOp.loop
    /\ lastOp.indexAfter = lastOp.len - 1

\* C11: `play` sets isPlaying = true, `pause` sets isPlaying = false,
\* `black-screen` sets isBlackScreen = true and `show-screen` sets
\* isBlackScreen = false, each leaving the other two of currentIndex,
\* isPlaying, isBlackScreen unchanged; a command outside the fixed set is
\* handled without error and leaves all three unchanged.
C11_FlagCommands ==
    LET o == lastOp
        keepsIndex   == o.indexAfter = o.index
        keepsPlaying == o.playingAfter = o.playing
        keepsBlack   == o.blackAfter = o.black
    IN  /\ o.cmd = "play"  => o.playingAfter = TRUE  /\ keepsIndex /\ keepsBlack
        /\ o.cmd = "pause" => o.playingAfter = FALSE /\ keepsIndex /\ keepsBlack
        /\ o.cmd = "black-screen" => o.blackAfter = TRUE  /\ keepsIndex /\ keepsPlaying
        /\ o.cmd = "show-screen"  => o.blackAfter = FALSE /\ keepsIndex /\ keepsPlaying
        /\ o.cmd \notin Commands \cup {"none"} =>
              keepsIndex /\ keepsPlaying /\ keepsBlack

\* C11 witness: `play` handled while paused on a blacked-out screen at a
\* non-zero index: only isPlaying changed.
C11_Witness ==
    /\ lastOp.cmd = "play"
    /\ ~lastOp.playing /\ lastOp.black /\ lastOp.index > 0
    /\ isPlaying /\ isBlackScreen /\ currentIndex = lastOp.index

\* C12: sendCommand publishes only after its log append has settled, and a
\* failed append does not block delivery: a call whose append is pending has
\* not reached the channel; a call whose append settled, with or without an
\* error, has gone on to the channel, and if its join succeeded (the handle
\* was joined, or its status callback saw SUBSCRIBED) it has broadcast.
C12_AppendThenPublish ==
    \A c \in DOMAIN calls :
        /\ calls[c].log = "pending" => calls[c].pub = 0
        /\ calls[c].log \in {"ok", "failed"} =>
              /\ calls[c].pub \in DOMAIN pubs
              /\ LET p == pubs[calls[c].pub]
                 IN  /\ p.topic = "commands"
                     /\ (p.stateAtCall = "joined" \/ p.sawSubscribed)
                            => p.pc = "sent" /\ p.sentOn = "joined"

\* C12 witness: a call whose append failed has broadcast after waiting for
\* the join, while a later call is still awaiting its append.
C12_Witness ==
    \E c, d \in DOMAIN calls :
        /\ calls[c].log = "failed"
        /\ calls[c].pub \in DOMAIN pubs
        /\ pubs[calls[c].pub].sawSubscribed
        /\ pubs[calls[c].pub].pc = "sent"
        /\ calls[d].log = "pending"

\* The presses so far form one burst: each follows the previous one by
\* less than the debounce wait.
OneBurst ==
    /\ Len(presses) >= 1
    /\ \A i \in 2..Len(presses) : presses[i].at - presses[i-1].at < DebounceWait

\* No debounced function has a timer pending.
Quiet == \A r \in DOMAIN timeout : timeout[r] = NoTimer

\* C13 (as claimed): a burst of presses, each less than 300 ms after the
\* previous one, issues at most one sendCommand, and once its timers have run
\* exactly one, carrying the command of the last press, whatever heartbeat
\* and status receipts interleave with the presses.
C13_OneSendPerBurst ==
    OneBurst =>
        /\ Len(issued) <= 1
        /\ Quiet => /\ Len(issued) = 1
                    /\ issued[1].cmd = presses[Len(presses)].cmd

\* The sendHeartbeat calls of the session issued at display time t.
BeatsAt(t) == {i \in DOMAIN heartbeats : heartbeats[i].at = t}

\* C14: a session issues one heartbeat send at its start and one at every
\* multiple of 5 seconds after it, none at any other time and none after its
\* teardown, whatever the outcome of the earlier sends.  (The tick due at the
\* current instant, or at the instant of the teardown, may not have run.)
C14_HeartbeatSchedule ==
    session \in {"live", "ended"} =>
        LET until == IF session = "ended" THEN endedAt ELSE dclock
        IN  /\ Cardinality(BeatsAt(startedAt)) = 1
            /\ \A t \in startedAt..dclock :
                  LET due == (t - startedAt) % HeartbeatInterval = 0
                  IN  /\ Cardinality(BeatsAt(t)) <= 1
                      /\ BeatsAt(t) # {} => due /\ t <= until
                      /\ (due /\ t < until) => BeatsAt(t) # {}

\* C14 witness: the immediate send and the first tick's send both failed and
\* the second tick has sent, ten seconds into a live session.
C14_Witness ==
    /\ session = "live"
    /\ Len(heartbeats) = 3
    /\ heartbeats[1].at = startedAt /\ heartbeats[1].outcome = "failed"
    /\ heartbeats[2].outcome = "failed"
    /\ heartbeats[3].at = startedAt + 2 * HeartbeatInterval

\* C15: while the session is live the latest status snapshot issued carries
\* the current isPlaying, isBlackScreen and currentIndex (every change of one
\* of them issued a snapshot with the new values), and no snapshot after the
\* initial one repeated the values of the one before it (nothing is issued
\* when none of the three changed: not on a heartbeat tick, not when loadData
\* re-arms the timer, not on a command that changes nothing).
C15_StatusOnChangeOnly ==
    /\ session = "live" =>
          /\ published >= 1
          /\ lastSnapshot = Snapshot(isPlaying, isBlackScreen, currentIndex)
    /\ ~repeated

\* C15 witness: a live session that loaded its items, ran a heartbeat tick
\* and handled `pause` has issued two snapshots: the initial one and the one
\* for the pause.
C15_Witness ==
    /\ session = "live"
    /\ loaded
    /\ Len(heartbeats) >= 2
    /\ lastOp.cmd = "pause" /\ lastOp.playing
    /\ ~isPlaying
    /\ published = 2
    /\ lastSnapshot.is_playing = FALSE

\* C16 (as claimed): a publish of this process on the status or heartbeat
\* topic invokes none of the process's own handlers for the topic, and a
\* publish on the command topic invokes every handler the process holds for
\* it.
C16_EchoByTopic ==
    \A r \in relayed :
        /\ r.topic \in {"status", "heartbeat"} => r.invoked = {}
        /\ r.topic = "commands" => r.invoked = r.listening

\* C17: right after a call of a returned unsubscribe function its handle is
\* torn down and is not in the cache, and right after a second call in a row
\* the cache and the set of live handles are as the first call left them.
C17_UnsubscribeIdempotent ==
    lastUnsub.times >= 1 =>
        /\ chans[lastUnsub.handle].state = "idle"
        /\ cache[chans[lastUnsub.handle].topic] # lastUnsub.handle
        /\ lastUnsub.times = 2 =>
              /\ cache = lastUnsub.cache
              /\ LiveHandles(chans) = lastUnsub.live

\* C17 witness: the unsubscribe function of a topic's latest subscription has
\* been called twice in a row while another handle is live.
C17_Witness ==
    /\ lastUnsub.times = 2
    /\ lastUnsub.live # {}
    /\ \E t \in Topics : Len(subs[t]) >= 1 /\ subs[t][Len(subs[t])] = lastUnsub.handle

\* The interstitial (single-photo and video) streams that have items.
Interstitial == {st \in 1..Len(streams) : /\ streams[st].type # "slideshow"
                                          /\ streams[st].count > 0}

\* The frequency in force for the items of stream st.
FrequencyOf(st) == getValue(streams[st].frequency, DefaultFrequency)

\* The positions in the built sequence of the base (slideshow) items.
BasePositions ==
    SelectSeq([p \in 1..Len(sequence) |-> p],
              LAMBDA p : sequence[p].streamType = "slideshow")

\* The positions in the built sequence after the k-th base item and before
\* the next one.
Segment(k) ==
    {p \in 1..Len(sequence) :
        /\ BasePositions[k] < p
        /\ k < Len(BasePositions) => p < BasePositions[k + 1]}

\* The number of insertions the streams from st on are due for n base items.
RECURSIVE DueInsertions(_, _)
DueInsertions(st, n) ==
    IF st > Len(streams) THEN 0
    ELSE (IF st \in Interstitial
             THEN streams[st].count * (n \div FrequencyOf(st)) ELSE 0)
         + DueInsertions(st + 1, n)

\* C18: with N >= 1 base items and a positive frequency for every
\* interstitial item, the built sequence has N + sum over the interstitial
\* items of floor(N / frequency) items.
C18_SequenceLength ==
    (/\ built
     /\ BaseCount(streams) >= 1
     /\ \A st \in Interstitial : FrequencyOf(st) >= 1) =>
        Len(sequence) = BaseCount(streams) + DueInsertions(1, BaseCount(streams))

\* C18 witness: five base items and one interstitial item at frequency 2:
\* 5 + 2 items.
C18_Witness ==
    /\ built
    /\ BaseCount(streams) = 5
    /\ \E st \in Interstitial :
          /\ streams[st].count = 1 /\ FrequencyOf(st) = 2
          /\ Interstitial = {st}
    /\ Len(sequence) = 7

C20_DeclarationOrder ==
    (built /\ BaseCount(streams) >= 1) =>
        \A k \in 1..Len(BasePositions) : \A p, q \in Segment(k) :
            p < q =>
               \/ sequence[p].stream < sequence[q].stream
               \/ /\ sequence[p].stream = sequence[q].stream
                  /\ sequence[p].item < sequence[q].item

\* C21 (as claimed): with a non-empty base, every item of an interstitial
\* stream whose frequency is 0 or negative occurs once after each base item.
C21_NonPositiveEveryPosition ==
    (built /\ BaseCount(streams) >= 1) =>
        \A st \in Interstitial : \A i \in 1..streams[st].count :
            FrequencyOf(st) <= 0 =>
               \A k \in 1..Len(BasePositions) :
                  Cardinality({p \in Segment(k) : /\ sequence[p].stream = st
                                                  /\ sequence[p].item = i}) = 1

\* C22: every call of buildPlaybackSequence returns, its while loop having
\* made exactly one pass per base item, whatever the frequencies.
C22_BuildTerminates ==
    <>(loopPc = "returned" /\ built /\ passes = BaseCount(streams))

\* C22 witness: a call over two or more base items and a frequency item of
\* frequency 0 or less has returned after one pass per base item, with the
\* sequence the whole call computes.
C22_Witness ==
    /\ loopPc = "returned"
    /\ Len(loopBase) >= 2
    /\ passes = Len(loopBase)
    /\ \E k \in 1..Len(loopItems) : loopItems[k].frequency <= 0
    /\ sequence = buildPlaybackSequence(streams, [k \in 1..BaseCount(streams) |-> k])

\* The sequence the same streams give without shuffle.
Unshuffled == buildPlaybackSequence(streams, [k \in 1..BaseCount(streams) |-> k])

\* C23: with shuffle on and a non-empty base, whatever order shuffleArray
\* returns, the base items of the sequence are the slideshow items, each
\* once, and every position the unshuffled build gives to an interstitial
\* item holds that same item.
C23_ShuffleBaseOnly ==
    (built /\ shuffle /\ BaseCount(streams) >= 1) =>
        /\ Len(sequence) = Len(Unshuffled)
        /\ \A p \in 1..Len(sequence) :
              IF Unshuffled[p].streamType = "slideshow"
              THEN sequence[p].streamType = "slideshow"
              ELSE sequence[p] = Unshuffled[p]
        /\ \A q \in 1..Len(Unshuffled) :
              Unshuffled[q].streamType = "slideshow" =>
                 Cardinality({p \in 1..Len(sequence) : sequence[p] = Unshuffled[q]}) = 1

\* C23 witness: shuffleArray has exchanged two base items, and an
\* interstitial item stands after each of them as in the unshuffled build.
C23_Witness ==
    /\ built /\ shuffle
    /\ BaseCount(streams) = 2
    /\ Len(sequence) = 4
    /\ sequence # Unshuffled
    /\ sequence[1] = Unshuffled[3] /\ sequence[3] = Unshuffled[1]
    /\ sequence[2] = Unshuffled[2] /\ sequence[4] = Unshuffled[4]
    /\ sequence[2].streamType # "slideshow"

\* C24 (as claimed): without base items the sequence holds every
\* interstitial item exactly once, the streams in their declaration order
\* and the items of a stream in their order, whatever the frequencies.
C24_EmptyBaseInOrder ==
    (built /\ BaseCount(streams) = 0) =>
        /\ Len(sequence) = FrequencyCount(streams)
        /\ \A st \in Interstitial : \A i \in 1..streams[st].count :
              Cardinality({p \in 1..Len(sequence) : /\ sequence[p].stream = st
                                                     /\ sequence[p].item = i}) = 1
        /\ \A p, q \in 1..Len(sequence) :
              p < q =>
                 \/ sequence[p].stream < sequence[q].stream
                 \/ /\ sequence[p].stream = sequence[q].stream
                    /\ sequence[p].item < sequence[q].item

\* C25: the auto-advance timer firing on a non-empty sequence leaves the
\* index and isPlaying the `next` command would leave from the same state:
\* index + 1 before the last item; at the last item 0 when looping is
\* enabled and, when it is not, the same index with isPlaying = false.
C25_TimerAdvancesAsNext ==
    (lastFire.fired /\ lastFire.len > 0) =>
        /\ lastFire.indexAfter = CommandNextIndex(lastFire.index, lastFire.len, lastFire.loop)
        /\ lastFire.playingAfter =
              CommandNextPlaying(lastFire.index, lastFire.len, lastFire.loop, lastFire.playing)
        /\ IF lastFire.index = lastFire.len - 1
           THEN IF lastFire.loop
                   THEN lastFire.indexAfter = 0
                   ELSE lastFire.indexAfter = lastFire.index /\ lastFire.playingAfter = FALSE
           ELSE lastFire.indexAfter = lastFire.index + 1

\* C25 witness: the timer has fired at the last item of a sequence of
\* several items that does not loop, and playback has stopped there.
C25_Witness ==
    /\ lastFire.fired
    /\ lastFire.len >= 2
    /\ lastFire.index = lastFire.len - 1
    /\ ~lastFire.loop
    /\ lastFire.indexAfter = lastFire.index
    /\ ~lastFire.playingAfter

\* C26 (as claimed): whenever the loaded sequence is not empty,
\* 0 <= currentIndex < length, whatever commands and controls were handled
\* and whenever they were handled.
C26_IndexInRange ==
    (loaded /\ Len(allItems) > 0) => HasCurrentItem(allItems, currentIndex)

\* C27 (as claimed): a step that empties the cache entry of a topic is an
\* event of the handle stored there: that handle closes or fails in the
\* step.  A callback or an unsubscribe function of a handle that was
\* replaced leaves the entry alone.
C27_EvictedByOwnEvents ==
    [][\A t \in Topics :
          (cache[t] # NoHandle /\ cache'[t] = NoHandle) =>
              chans'[cache[t]].state # chans[cache[t]].state]_vars

\* C28 (as claimed): once the session is torn down, every handle it opened,
\* by a subscribeTo* call or by a publish, is closed and no topic's cache
\* entry holds a handle.
C28_TeardownClosesAll ==
    tornDown =>
        /\ \A h \in DOMAIN chans : chans[h].state = "idle"
        /\ \A t \in Topics : cache[t] = NoHandle

\* C29 (as claimed): once the page is torn down none of its timers fires:
\* no step after the teardown issues a sendCommand.
C29_NoTimerAfterTeardown ==
    [][tornDown => issued' = issued]_vars

\* C30 (as claimed): on an empty sequence no command changes currentIndex,
\* which is 0, and the auto-advance timer is not armed.
C30_EmptyIsTerminal ==
    Len(allItems) = 0 =>
        /\ currentIndex = 0
        /\ ~TimerArmed
        /\ lastOp.cmd \in Commands \ {"reload"} => lastOp.indexAfter = lastOp.index

\* The channel.subscribe calls made on handle h so far: the one of the
\* subscribeTo* call that created it, and one by every publish that found
\* the handle it obtained in a state other than joined.
SubscribeCalls(h) ==
    (IF chans[h].kind = "sub" THEN 1 ELSE 0)
    + Cardinality({p \in DOMAIN pubs : /\ pubs[p].handle = h
                                       /\ MustJoinFirst(pubs[p].stateAtCall)})

\* C31 (as claimed): the join handshake is started at most once on a handle:
\* no publish calls subscribe on a handle on which subscribe was called
\* before, be it still connecting, timed out or being joined by a
\* subscribeTo* call.
C31_JoinOncePerHandle ==
    \A h \in DOMAIN chans : SubscribeCalls(h) <= 1

\* The auto-advance effect's condition for setting a timeout.
ArmingCondition(index, playing, black, items) ==
    /\ playing
    /\ ~black
    /\ HasCurrentItem(items, index)
    /\ items[index + 1] # "video"

\* C32: a step that changes currentIndex, isPlaying or isBlackScreen leaves
\* no timeout of the earlier state pending and, if the new state is playing,
\* not blanked and on an item that is not a video, exactly one timeout with
\* the item's full duration ahead of it, otherwise none; at most one timeout
\* is pending at any time, and a pending timeout was set under the state the
\* page is in, so that none set under an earlier state can fire.
C32_ChangeCancelsAndRearms ==
    [][LET deps == AdvanceDeps(currentIndex', isPlaying', isBlackScreen', allItems',
                               loaded', loop')
       IN  /\ <<currentIndex', isPlaying', isBlackScreen'>>
                 # <<currentIndex, isPlaying, isBlackScreen>> =>
                 IF ArmingCondition(currentIndex', isPlaying', isBlackScreen', allItems')
                 THEN \E tm \in pendingTimers' :
                         /\ pendingTimers' = {tm}
                         /\ tm.left = ItemDuration
                         /\ tm.deps = deps
                 ELSE pendingTimers' = {}
           /\ Cardinality(pendingTimers') <= 1
           /\ \A tm \in pendingTimers' : tm.deps = deps]_vars

\* C32 witness: a `next` command moved the page from a photo that was
\* playing, with its timeout pending, to another photo, whose timeout is
\* pending with the full duration ahead.
C32_Witness ==
    /\ cause = "command"
    /\ lastOp.cmd = "next"
    /\ lastOp.playing /\ ~lastOp.black
    /\ lastOp.indexAfter = lastOp.index + 1
    /\ currentIndex = lastOp.indexAfter
    /\ allItems[lastOp.index + 1] = "photo"
    /\ allItems[currentIndex + 1] = "photo"
    /\ \E tm \in pendingTimers : pendingTimers = {tm} /\ tm.left = ItemDuration

\* C33: while the current item is a video no timeout of the auto-advance
\* effect is pending, and a step that moves the index off a video (the page
\* not starting again) is the video's ended event, a playback error, or a
\* next or previous from a command or a local control.
C33_VideoAdvancesOnEvents ==
    [][/\ (HasCurrentItem(allItems', currentIndex')
              /\ allItems'[currentIndex' + 1] = "video") => pendingTimers' = {}
       /\ (/\ HasCurrentItem(allItems, currentIndex)
           /\ allItems[currentIndex + 1] = "video"
           /\ currentIndex' # currentIndex
           /\ loaded') =>
              \/ cause' \in {"ended", "error", "control"}
              \/ cause' = "command" /\ lastOp'.cmd \in {"next", "previous"}]_vars

\* C33 witness: the video at the head of a video-then-photo sequence has
\* played to its end, and the page is on the photo with its timeout set.
C33_Witness ==
    /\ cause = "ended"
    /\ allItems = <<"video", "photo">>
    /\ currentIndex = 1
    /\ \E tm \in pendingTimers : pendingTimers = {tm} /\ tm.left = ItemDuration

\* C34 (as claimed): whenever the sequence is not empty, the page is
\* playing and not blanked and the current item is not a video, a timeout
\* of the auto-advance effect is pending; so playback with looping enabled
\* never stalls, a sequence of one item included.
C34_PlayingHasTimer ==
    (/\ loaded
     /\ Len(allItems) > 0
     /\ ArmingCondition(currentIndex, isPlaying, isBlackScreen, allItems)) =>
        pendingTimers # {}

\* C35 (as claimed): while the page is paused the index changes only by a
\* next or previous, from a command or a local control (the page not
\* starting again): no timeout, no ended event of a video and no media
\* error moves it.
C35_PausedMovesOnlyExplicitly ==
    [][(~isPlaying /\ currentIndex' # currentIndex /\ loaded') =>
          \/ cause' = "control"
          \/ cause' = "command" /\ lastOp'.cmd \in {"next", "previous"}]_vars

\* C36 (as claimed): when an automatic advance and a `next` command are both
\* handled between two renders of a looping sequence of three or more
\* items, in either order, the render moves the index by two:
\* from i to (i + 2) mod length.
C36_NeitherTransitionLost ==
    (/\ loop
     /\ Len(allItems) >= 3
     /\ lastBatch.events \in {<<"advance", "next">>, <<"next", "advance">>}) =>
        lastBatch.indexAfter = (lastBatch.index + 2) % Len(allItems)

\* C37 (as claimed): the command log is append-only: it holds every row an
\* insert of sendCommand has stored, unchanged and in order, whatever
\* functions of the command service were called since.
C37_LogAppendOnly ==
    commandLog = appended

=============================================================================
